---- MODULE Spec2Model ----
(***************************************************************************)
(* The update scheduler, reflection engine and notification engine of     *)
(* CustomElement (src/src/custom-element.ts), together with the host      *)
(* runtime it runs on: one task at a time, a FIFO microtask queue that    *)
(* drains whenever the call stack empties, and animation-frame callbacks. *)
(*                                                                         *)
(* JavaScript values are modelled as tagged names: "undefined", "null",   *)
(* the numbers "n0", "n1" and "NaN", the strings "s0", "s1", "sNaN" (the *)
(* string forms of the numbers) and "true", and the booleans "bT", "bF",  *)
(* so that a conversion between property values and attribute strings is  *)
(* visible.                                                                *)
(*                                                                         *)
(* The listeners of the element's class are bound and unbound with its    *)
(* attachment. FocusMonitor (src/unnamed/part_002), a behavior attached   *)
(* to an element, is a second state machine over its own variables.       *)
(***************************************************************************)
EXTENDS Naturals, Sequences, FiniteSets, TLC

VARIABLES
    decl,                   \* static properties: propertyKey -> PropertyDeclaration
    listeners,              \* static listeners: the ListenerDeclarations, in insertion order
    _listenerDeclarations,  \* InstanceListenerDeclaration[]
    bound,                  \* the host's event listener lists: the listeners added to
                            \* event targets and not removed, in the order they were added
    value,                  \* the storage slot behind each property accessor
    attrs,                  \* the element's attributes, by owning property
    _changedProperties,     \* Map<PropertyKey, any>, in insertion order
    _reflectingProperties,  \* Map<PropertyKey, any>, in insertion order
    _notifyingProperties,   \* Map<PropertyKey, any>, in insertion order
    _isReflecting,
    _hasUpdated,
    _hasRequestedUpdate,
    _isConnected,
    reflectedAttribute,     \* the attribute a running custom attribute reflector was called for
    _updateRequest,         \* index into promises of the current Promise<boolean>
    promises,               \* state of every Promise<boolean> created so far
    waiting,                \* _enqueueUpdate calls suspended at `await previousRequest`
    microtasks,             \* the host's microtask queue
    rafQueue,               \* requestAnimationFrame callbacks, by pass (promise index)
    stack,                  \* the call stack: which user code or engine frame is running
    pass,                   \* the pass whose frame callback is running, 0 if none
    iter,                   \* position of the running forEach of update()
    previousChanges,        \* the backup taken by each active watch() call
    events,                 \* events dispatched by the default notifier in the running pass
    ops,                    \* number of operations the environment has performed
    budget,                 \* number of operations the environment performs at most
    scope,                  \* the properties the environment reads and writes
    histories,              \* the optional histories that are recorded
    started,                \* history: passes whose body has begun, in order
    done,                   \* history: passes whose body has completed
    turn,                   \* history: the current execution turn
    lastCall,               \* history: the latest requestUpdate call and what it returned
    late,                   \* history: keys recorded as changed while the last pass body ran
                            \*          (kept until the next task or pass begins)
    firstOld,               \* history: per key, the oldValue of its first recorded change
                            \*          since the dirty sets were last cleared
    lastOld,                \* history: per key, the oldValue of its latest recorded change
    log,                    \* history: the steps of the latest pass, in order
    watched,                \* history: per active watch() call, the keys whose writes inside
                            \*          its executor were recorded as changes, and the values
                            \*          before it
    lastWatch,              \* history: the latest watch() call that returned
    lastError,              \* history: the latest error thrown by the engine
    during,                 \* history, optional: the passes during whose body
                            \*          requestUpdate was called
    hook,                   \* history: the calls of updateCallback so far and the
                            \*          firstUpdate argument of the latest
    element,                \* FocusMonitor: the element it is attached to
    hasFocus,               \* FocusMonitor: hasFocus
    dispatched,             \* FocusMonitor: the events it has dispatched, in order
    focusEvents             \* history: the focus events the host has delivered to the
                            \*          monitor's listeners: how many, and the latest

vars == << decl, listeners, _listenerDeclarations, bound, budget, scope, histories,
           value, attrs, _changedProperties,
           _reflectingProperties, _notifyingProperties, _isReflecting, _hasUpdated, _hasRequestedUpdate,
           _updateRequest, promises, waiting, microtasks, rafQueue, stack, pass,
           iter, previousChanges, events, ops, started, done, turn, lastCall,
           late, firstOld, lastOld, _isConnected, reflectedAttribute, log,
           watched, lastWatch, lastError, hook, during,
           element, hasFocus, dispatched, focusEvents >>

\* the state of the FocusMonitor
focusVars == << element, hasFocus, dispatched, focusEvents >>

----------------------------------------------------------------------------
(* Bounds *)

\* the environment performs at most MaxOps operations (writes, attribute
\* changes, requestUpdate calls, watch blocks, queued microtasks) in a behaviour
MaxOps == 3

\* the same, in the behaviours checked for liveness
MaxFairOps == 3

\* the same, in the behaviours of an element of which one property is used
MaxWatchOps == 4

\* the host delivers at most MaxFocusEvents focus events to a FocusMonitor
MaxFocusEvents == 4

----------------------------------------------------------------------------
(* Values *)

Keys == {"count", "checked"}

NoKey == ""

\* a name that is no declared property of the class: as a property key it has
\* no declaration, as an observed attribute it has no owning property
Undeclared == "other"

\* the properties and attributes of the element that scripts use
Names == Keys \cup {Undeclared}

UNDEFINED == "undefined"

NULL == "null"

Numbers == {"n0", "n1"}

Booleans == {"bT", "bF"}

NaN == "NaN"

\* values a script assigns to a property: numbers to a property with the
\* default converter, booleans to one with the boolean converter, and numbers,
\* NaN, undefined and null to one whose converter accepts them
WriteVals == Numbers \cup Booleans \cup {NaN, UNDEFINED, NULL}

\* values the environment gives an attribute; NULL removes it
AttrVals == {"s0", NULL}

\* Number.prototype.toString / String.prototype.toString
toString(v) ==
    CASE v = "n0" -> "s0"
      [] v = "n1" -> "s1"
      [] v = NaN  -> "sNaN"
      [] OTHER -> v

----------------------------------------------------------------------------
(* Property declarations *)

DEFAULT_PROPERTY_DECLARATION ==
    [ attribute        |-> TRUE,
      converter        |-> "default",
      reflectAttribute |-> "default",
      reflectProperty  |-> "default",
      notify           |-> "default",
      observe          |-> "default" ]

\* a declaration whose reflectors and notifier are custom functions
CustomDeclaration ==
    [ DEFAULT_PROPERTY_DECLARATION EXCEPT
        !.reflectAttribute = "custom",
        !.reflectProperty  = "custom",
        !.notify           = "custom" ]

\* a handler option is `false`, `true` (the default handler), a function
\* ("custom") or the name of a method of the instance ("method")
CustomHandlers == {"custom", "method"}

\* a declaration whose reflectors and notifier are methods named by key
MethodDeclaration ==
    [ DEFAULT_PROPERTY_DECLARATION EXCEPT
        !.reflectAttribute = "method",
        !.reflectProperty  = "method",
        !.notify           = "method" ]

\* a declaration with a custom change detector
ObservedDeclaration == [ DEFAULT_PROPERTY_DECLARATION EXCEPT !.observe = "custom" ]

\* a declaration with `observe: false` and a custom attribute reflector
UnobservedDeclaration ==
    [ DEFAULT_PROPERTY_DECLARATION EXCEPT
        !.observe          = "false",
        !.reflectAttribute = "custom" ]

\* a declaration with `reflectAttribute: false`, a custom property reflector
\* and a custom notifier
UnreflectedDeclaration == [ CustomDeclaration EXCEPT !.reflectAttribute = "false" ]

\* a declaration with the boolean converter of the demo's checkbox
BooleanDeclaration == [ DEFAULT_PROPERTY_DECLARATION EXCEPT !.converter = "boolean" ]

\* the element classes under test: each is a static `properties` map
ElementClasses ==
    { [k \in Keys |-> DEFAULT_PROPERTY_DECLARATION],
      [k \in Keys |-> IF k = "checked" THEN CustomDeclaration
                      ELSE DEFAULT_PROPERTY_DECLARATION] }

\* a class whose `count` has a custom change detector
ObservedClasses ==
    { [k \in Keys |-> IF k = "checked" THEN MethodDeclaration ELSE ObservedDeclaration] }

\* a class whose `count` has custom handlers
WatchedClasses ==
    { [k \in Keys |-> IF k = "count" THEN CustomDeclaration
                      ELSE DEFAULT_PROPERTY_DECLARATION] }

\* a class whose handlers are all custom: functions for `count`, methods for
\* `checked`
HandlerClasses ==
    { [k \in Keys |-> IF k = "count" THEN CustomDeclaration ELSE MethodDeclaration] }

\* a class whose `count` has the boolean converter
BooleanClasses ==
    { [k \in Keys |-> IF k = "checked" THEN CustomDeclaration ELSE BooleanDeclaration] }

\* a class whose `count` is not observed and whose `checked` is not reflected
\* from its attribute
UnobservedClasses ==
    { [k \in Keys |-> IF k = "count" THEN UnobservedDeclaration
                      ELSE UnreflectedDeclaration] }

\* a declaration with `notify: false` and custom reflectors
SilentDeclaration == [ CustomDeclaration EXCEPT !.notify = "false" ]

\* classes whose properties differ in `notify`: the default notifier and none,
\* or none and a custom notifier
NotifiedClasses ==
    { [k \in Keys |-> IF k = "count" THEN DEFAULT_PROPERTY_DECLARATION
                      ELSE SilentDeclaration],
      [k \in Keys |-> IF k = "count"
                      THEN [DEFAULT_PROPERTY_DECLARATION EXCEPT !.notify = "false"]
                      ELSE CustomDeclaration] }

\* a declaration whose converter passes undefined and null on to the attribute
NullableDeclaration == [ DEFAULT_PROPERTY_DECLARATION EXCEPT !.converter = "nullable" ]

\* a declaration with `attribute: false`
DetachedDeclaration == [ DEFAULT_PROPERTY_DECLARATION EXCEPT !.attribute = FALSE ]

\* classes whose `count` has the converter that passes undefined and null on,
\* no attribute, or custom handlers
ConvertedClasses ==
    { [k \in Keys |-> IF k = "count" THEN NullableDeclaration
                      ELSE DEFAULT_PROPERTY_DECLARATION],
      [k \in Keys |-> IF k = "count" THEN DetachedDeclaration
                      ELSE DEFAULT_PROPERTY_DECLARATION],
      [k \in Keys |-> IF k = "count" THEN CustomDeclaration
                      ELSE DEFAULT_PROPERTY_DECLARATION] }

\* static `listeners` maps, as the entries of the Map in insertion order: a
\* listener on the element itself, one on a declared target and one on the
\* target a declared function returns; or two methods listening to the same
\* event of the element
ListenerRegistries ==
    { << [ listener |-> "handleClick", event |-> "click",
           target |-> UNDEFINED, options |-> UNDEFINED ],
         [ listener |-> "handleResize", event |-> "resize",
           target |-> "window", options |-> UNDEFINED ],
         [ listener |-> "handleKeydown", event |-> "keydown",
           target |-> "document", options |-> "capture" ] >>,
      << [ listener |-> "handleClick", event |-> "click",
           target |-> UNDEFINED, options |-> UNDEFINED ],
         [ listener |-> "handleToggle", event |-> "click",
           target |-> UNDEFINED, options |-> UNDEFINED ] >> }

_getPropertyDeclaration(propertyKey) == decl[propertyKey]

\* what a script assigns to property k
ValuesOf(k) ==
    IF k \in DOMAIN decl /\ decl[k].converter = "boolean" THEN Booleans
    ELSE IF k \in DOMAIN decl /\ decl[k].converter = "nullable"
    THEN {"n0", NaN, UNDEFINED, NULL}
    ELSE Numbers

\* JavaScript's === on the modelled values
StrictEquals(a, b) == a = b /\ a # NaN

\* a mutation of the default detector: oldValue !== newValue alone
StrictlyDifferent(oldValue, newValue) == ~StrictEquals(oldValue, newValue)

DEFAULT_PROPERTY_CHANGE_DETECTOR(oldValue, newValue) ==
    ~StrictEquals(oldValue, newValue)
        /\ (StrictEquals(oldValue, oldValue) \/ StrictEquals(newValue, newValue))

\* the default converter: toAttribute is value.toString(), which throws a
\* TypeError for undefined and null
toAttributeThrows(v) == v \in {UNDEFINED, NULL}

toAttribute(v) == toString(v)

fromAttribute(a) == a

\* JavaScript's ToBoolean on the modelled values ("n0", "n1" are nonzero)
Truthy(v) == v \notin {UNDEFINED, NULL, "bF", NaN}

\* a mutation of the boolean converter: false is written as a string
toAttributeBooleanAsString(v) == IF Truthy(v) THEN "true" ELSE "false"

\* the boolean converter
toAttributeBoolean(v) == IF Truthy(v) THEN "true" ELSE NULL

fromAttributeBoolean(a) == IF a # NULL THEN "bT" ELSE "bF"

\* a converter of the component's author that passes undefined and null on:
\* toAttribute is value => value == null ? value : value.toString()
toAttributeNullable(v) == IF v \in {UNDEFINED, NULL} THEN v ELSE toString(v)

\* propertyDeclaration.converter.toAttribute / fromAttribute
converterToAttributeThrows(propertyKey, v) ==
    _getPropertyDeclaration(propertyKey).converter = "default" /\ toAttributeThrows(v)

converterToAttribute(propertyKey, v) ==
    IF _getPropertyDeclaration(propertyKey).converter = "boolean"
    THEN toAttributeBoolean(v)
    ELSE IF _getPropertyDeclaration(propertyKey).converter = "nullable"
    THEN toAttributeNullable(v)
    ELSE toAttribute(v)

converterFromAttribute(propertyKey, a) ==
    IF _getPropertyDeclaration(propertyKey).converter = "boolean"
    THEN fromAttributeBoolean(a)
    ELSE fromAttribute(a)

----------------------------------------------------------------------------
(* Errors thrown by the engine *)

NoError == [ n |-> 0, kind |-> "none", handler |-> "none", key |-> NoKey ]

\* a mutation: the error does not name the handler
ATTRIBUTE_REFLECTOR_ERROR_Unnamed(attributeReflector) ==
    [ kind |-> "attribute reflector", handler |-> "none" ]

ATTRIBUTE_REFLECTOR_ERROR(attributeReflector) ==
    [ kind |-> "attribute reflector", handler |-> attributeReflector ]

PROPERTY_REFLECTOR_ERROR(propertyReflector) ==
    [ kind |-> "property reflector", handler |-> propertyReflector ]

PROPERTY_NOTIFIER_ERROR(propertyNotifier) ==
    [ kind |-> "property notifier", handler |-> propertyNotifier ]

CHANGE_DETECTOR_ERROR(changeDetector) ==
    [ kind |-> "property change detector", handler |-> changeDetector ]

\* the TypeError of undefined.toString() / null.toString()
TypeError == [ kind |-> "TypeError", handler |-> "toString" ]

----------------------------------------------------------------------------
(* Map<PropertyKey, any>, kept in insertion order *)

MapHas(m, k) == \E i \in 1..Len(m) : m[i].key = k

MapGet(m, k) == m[CHOOSE i \in 1..Len(m) : m[i].key = k].old

MapKeys(m) == { m[i].key : i \in 1..Len(m) }

\* a mutation of Map.set: an existing entry keeps its first value
MapSetKeepFirst(m, k, v) ==
    IF MapHas(m, k) THEN m ELSE Append(m, [key |-> k, old |-> v])

MapSet(m, k, v) ==
    IF MapHas(m, k)
    THEN [i \in 1..Len(m) |-> IF m[i].key = k THEN [key |-> k, old |-> v] ELSE m[i]]
    ELSE Append(m, [key |-> k, old |-> v])

----------------------------------------------------------------------------
(* The state as one record, so that a handler's statements compose *)

Cur ==
    [ value                 |-> value,
      _listenerDeclarations |-> _listenerDeclarations,
      bound                 |-> bound,
      attrs                 |-> attrs,
      _changedProperties    |-> _changedProperties,
      _reflectingProperties |-> _reflectingProperties,
      _notifyingProperties  |-> _notifyingProperties,
      _isReflecting         |-> _isReflecting,
      _hasUpdated           |-> _hasUpdated,
      _hasRequestedUpdate   |-> _hasRequestedUpdate,
      _updateRequest        |-> _updateRequest,
      promises              |-> promises,
      waiting               |-> waiting,
      microtasks            |-> microtasks,
      rafQueue              |-> rafQueue,
      stack                 |-> stack,
      pass                  |-> pass,
      iter                  |-> iter,
      previousChanges       |-> previousChanges,
      events                |-> events,
      ops                   |-> ops,
      started               |-> started,
      done                  |-> done,
      turn                  |-> turn,
      lastCall              |-> lastCall,
      late                  |-> late,
      firstOld              |-> firstOld,
      lastOld               |-> lastOld,
      _isConnected          |-> _isConnected,
      reflectedAttribute    |-> reflectedAttribute,
      log                   |-> log,
      watched               |-> watched,
      lastWatch             |-> lastWatch,
      lastError             |-> lastError,
      hook                  |-> hook,
      during                |-> during ]

Commit(s) ==
    /\ decl' = decl
    /\ listeners' = listeners
    /\ _listenerDeclarations' = s._listenerDeclarations
    /\ bound' = s.bound
    /\ budget' = budget
    /\ scope' = scope
    /\ histories' = histories
    /\ value' = s.value
    /\ attrs' = s.attrs
    /\ _changedProperties' = s._changedProperties
    /\ _reflectingProperties' = s._reflectingProperties
    /\ _notifyingProperties' = s._notifyingProperties
    /\ _isReflecting' = s._isReflecting
    /\ _hasUpdated' = s._hasUpdated
    /\ _hasRequestedUpdate' = s._hasRequestedUpdate
    /\ _updateRequest' = s._updateRequest
    /\ promises' = s.promises
    /\ waiting' = s.waiting
    /\ microtasks' = s.microtasks
    /\ rafQueue' = s.rafQueue
    /\ stack' = s.stack
    /\ pass' = s.pass
    /\ iter' = s.iter
    /\ previousChanges' = s.previousChanges
    /\ events' = s.events
    /\ ops' = s.ops
    /\ started' = s.started
    /\ done' = s.done
    /\ turn' = s.turn
    /\ lastCall' = s.lastCall
    /\ late' = s.late
    /\ firstOld' = s.firstOld
    /\ lastOld' = s.lastOld
    /\ _isConnected' = s._isConnected
    /\ reflectedAttribute' = s.reflectedAttribute
    /\ log' = s.log
    /\ watched' = s.watched
    /\ lastWatch' = s.lastWatch
    /\ lastError' = s.lastError
    /\ hook' = s.hook
    /\ during' = s.during
    /\ UNCHANGED focusVars

Top(s) == IF s.stack = << >> THEN "none" ELSE s.stack[Len(s.stack)]

Push(s, frame) == [s EXCEPT !.stack = Append(@, frame)]

Pop(s) == [s EXCEPT !.stack = SubSeq(@, 1, Len(@) - 1)]

\* `throw error`, from the handling of key; the caller's frames are unwound by
\* the operator that raises
Raise(s, error, key) ==
    [s EXCEPT !.lastError = [ n       |-> @.n + 1,
                              kind    |-> error.kind,
                              handler |-> error.handler,
                              key     |-> key ]]

\* frames in which code of the component's author or user is running
UserFrames ==
    { "script", "render", "propertyReflector", "notifier", "updateCallback",
      "attributeReflector", "watch" }

----------------------------------------------------------------------------
(* Update scheduler *)

\* a mutation of hasChanged: the detector's result is not consulted
hasChangedIgnoringDetector(propertyKey, oldValue, newValue, d) ==
    propertyKey \in DOMAIN decl
        /\ _getPropertyDeclaration(propertyKey).observe # "false"

\* a mutation of hasChanged: a key that has no detector is given the default
\* one
hasChangedDefaulting(propertyKey, oldValue, newValue, d) ==
    IF propertyKey \in DOMAIN decl
          /\ _getPropertyDeclaration(propertyKey).observe = "custom"
    THEN d = "changed"
    ELSE DEFAULT_PROPERTY_CHANGE_DETECTOR(oldValue, newValue)

\* d is what a custom detector returns for this call
hasChanged(propertyKey, oldValue, newValue, d) ==
    IF propertyKey \in DOMAIN decl
          /\ _getPropertyDeclaration(propertyKey).observe # "false"
    THEN IF _getPropertyDeclaration(propertyKey).observe = "default"
         THEN DEFAULT_PROPERTY_CHANGE_DETECTOR(oldValue, newValue)
         ELSE d = "changed"
    ELSE FALSE

\* the custom detector of propertyKey throws in this call
DetectorThrows(propertyKey, d) ==
    /\ propertyKey \in DOMAIN decl
    /\ _getPropertyDeclaration(propertyKey).observe = "custom"
    /\ d = "throw"

\* what the declared detector reports, read off the declaration itself
DetectorReportsChange(propertyKey, oldValue, newValue, d) ==
    /\ propertyKey \in DOMAIN decl
    /\ \/ decl[propertyKey].observe = "default" /\ oldValue # newValue
       \/ decl[propertyKey].observe = "custom" /\ d = "changed"

\* a mutation of _enqueueUpdate: _hasRequestedUpdate is not set
_enqueueUpdateUnmarked(s) ==
    LET p == Len(s.promises) + 1
    IN  [s EXCEPT !.promises = Append(@, "pending"),
                  !._updateRequest = p,
                  !.microtasks = IF s.promises[s._updateRequest] # "pending"
                                 THEN Append(@, [kind |-> "afterPrevious", p |-> p])
                                 ELSE @,
                  !.waiting = IF s.promises[s._updateRequest] # "pending"
                              THEN @
                              ELSE Append(@, [on |-> s._updateRequest, p |-> p])]

\* a mutation of _enqueueUpdate: _updateRequest is not replaced before the
\* first await
_enqueueUpdateKeepingPromise(s) ==
    LET previousRequest == s._updateRequest
        p  == Len(s.promises) + 1
        s1 == [s EXCEPT !._hasRequestedUpdate = TRUE,
                        !.promises = Append(@, "pending")]
    IN  IF s.promises[previousRequest] # "pending"
        THEN [s1 EXCEPT !.microtasks = Append(@, [kind |-> "afterPrevious", p |-> p])]
        ELSE [s1 EXCEPT !.waiting = Append(@, [on |-> previousRequest, p |-> p])]

\* _enqueueUpdate up to its first await
_enqueueUpdate(s) ==
    LET previousRequest == s._updateRequest
        p  == Len(s.promises) + 1
        s1 == [s EXCEPT !._hasRequestedUpdate = TRUE,
                        !.promises = Append(@, "pending"),
                        !._updateRequest = p]
    IN  IF s.promises[previousRequest] # "pending"
        THEN [s1 EXCEPT !.microtasks = Append(@, [kind |-> "afterPrevious", p |-> p])]
        ELSE [s1 EXCEPT !.waiting = Append(@, [on |-> previousRequest, p |-> p])]

\* a mutation of requestUpdate: the _hasRequestedUpdate test is missing
requestUpdateAlwaysEnqueue(s, propertyKey, oldValue, newValue, d) ==
    IF propertyKey # NoKey /\ ~hasChanged(propertyKey, oldValue, newValue, d)
    THEN s
    ELSE _enqueueUpdate(
            IF propertyKey # NoKey
            THEN [s EXCEPT
                    !._changedProperties = MapSet(@, propertyKey, oldValue),
                    !._reflectingProperties =
                        IF ~s._isReflecting THEN MapSet(@, propertyKey, oldValue) ELSE @]
            ELSE s)

\* a mutation of requestUpdate: the _isReflecting test is missing
requestUpdateAlwaysReflect(s, propertyKey, oldValue, newValue, d) ==
    IF propertyKey # NoKey /\ ~hasChanged(propertyKey, oldValue, newValue, d)
    THEN s
    ELSE LET s1 == IF propertyKey # NoKey
                   THEN [s EXCEPT
                           !._changedProperties = MapSet(@, propertyKey, oldValue),
                           !._reflectingProperties = MapSet(@, propertyKey, oldValue)]
                   ELSE s
         IN  IF ~s1._hasRequestedUpdate THEN _enqueueUpdate(s1) ELSE s1

\* a mutation of requestUpdate: the error of the detector is caught and the
\* write is taken for a change
requestUpdateCatching(s, propertyKey, oldValue, newValue, d) ==
    IF propertyKey # NoKey /\ ~DetectorThrows(propertyKey, d)
          /\ ~hasChanged(propertyKey, oldValue, newValue, d)
    THEN s
    ELSE LET s1 == IF propertyKey # NoKey
                   THEN [s EXCEPT
                           !._changedProperties = MapSet(@, propertyKey, oldValue),
                           !._reflectingProperties =
                               IF ~s._isReflecting
                               THEN MapSet(@, propertyKey, oldValue) ELSE @]
                   ELSE s
         IN  IF ~s1._hasRequestedUpdate THEN _enqueueUpdate(s1) ELSE s1

\* a mutation of requestUpdate: a call made while a pass body runs enqueues a
\* pass
requestUpdateEnqueueingInPass(s, propertyKey, oldValue, newValue, d) ==
    IF propertyKey # NoKey /\ ~hasChanged(propertyKey, oldValue, newValue, d)
    THEN s
    ELSE LET s1 == IF propertyKey # NoKey
                   THEN [s EXCEPT
                           !._changedProperties = MapSet(@, propertyKey, oldValue),
                           !._reflectingProperties =
                               IF ~s._isReflecting
                               THEN MapSet(@, propertyKey, oldValue) ELSE @]
                   ELSE s
         IN  IF ~s1._hasRequestedUpdate \/ s1.pass # 0 THEN _enqueueUpdate(s1) ELSE s1

\* a mutation of requestUpdate: the key is marked for reflection before the
\* detector is consulted
requestUpdateReflectingUnchanged(s, propertyKey, oldValue, newValue, d) ==
    IF propertyKey # NoKey /\ ~hasChanged(propertyKey, oldValue, newValue, d)
    THEN [s EXCEPT !._reflectingProperties =
                       IF ~s._isReflecting THEN MapSet(@, propertyKey, oldValue) ELSE @]
    ELSE LET s1 == IF propertyKey # NoKey
                   THEN [s EXCEPT
                           !._changedProperties = MapSet(@, propertyKey, oldValue),
                           !._reflectingProperties =
                               IF ~s._isReflecting
                               THEN MapSet(@, propertyKey, oldValue) ELSE @]
                   ELSE s
         IN  IF ~s1._hasRequestedUpdate THEN _enqueueUpdate(s1) ELSE s1

\* a mutation of requestUpdate: a recorded change is marked for notification
requestUpdateNotifying(s, propertyKey, oldValue, newValue, d) ==
    IF propertyKey # NoKey /\ ~hasChanged(propertyKey, oldValue, newValue, d)
    THEN s
    ELSE LET s1 == IF propertyKey # NoKey
                   THEN [s EXCEPT
                           !._changedProperties = MapSet(@, propertyKey, oldValue),
                           !._notifyingProperties = MapSet(@, propertyKey, oldValue),
                           !._reflectingProperties =
                               IF ~s._isReflecting
                               THEN MapSet(@, propertyKey, oldValue) ELSE @]
                   ELSE s
         IN  IF ~s1._hasRequestedUpdate THEN _enqueueUpdate(s1) ELSE s1

\* a mutation of requestUpdate: the guard is kept per property, so only a
\* write to the property whose attribute is being reflected is kept out of
\* _reflectingProperties
requestUpdatePerPropertyGuard(s, propertyKey, oldValue, newValue, d) ==
    IF propertyKey # NoKey /\ ~hasChanged(propertyKey, oldValue, newValue, d)
    THEN s
    ELSE LET s1 == IF propertyKey # NoKey
                   THEN [s EXCEPT
                           !._changedProperties = MapSet(@, propertyKey, oldValue),
                           !._reflectingProperties =
                               IF ~(s._isReflecting /\ s.reflectedAttribute = propertyKey)
                               THEN MapSet(@, propertyKey, oldValue) ELSE @]
                   ELSE s
         IN  IF ~s1._hasRequestedUpdate THEN _enqueueUpdate(s1) ELSE s1

\* a custom detector that throws makes hasChanged, and so requestUpdate, throw
\* before anything is recorded
requestUpdate(s, propertyKey, oldValue, newValue, d) ==
    IF propertyKey # NoKey /\ DetectorThrows(propertyKey, d)
    THEN Raise(s, CHANGE_DETECTOR_ERROR(_getPropertyDeclaration(propertyKey).observe),
               propertyKey)
    ELSE IF propertyKey # NoKey /\ ~hasChanged(propertyKey, oldValue, newValue, d)
    THEN s
    ELSE LET s1 == IF propertyKey # NoKey
                   THEN [s EXCEPT
                           !._changedProperties = MapSet(@, propertyKey, oldValue),
                           !._reflectingProperties =
                               IF ~s._isReflecting
                               THEN MapSet(@, propertyKey, oldValue) ELSE @]
                   ELSE s
         IN  IF ~s1._hasRequestedUpdate THEN _enqueueUpdate(s1) ELSE s1

\* history of a requestUpdate call: its arguments, what the declared detector
\* says of them, and the promise it returned
Traced(s0, s1, propertyKey, oldValue, newValue, d) ==
    LET differs == DetectorReportsChange(propertyKey, oldValue, newValue, d)
        inTurn == s0.stack # << >> /\ s0.stack[1] = "script"
    IN  [s1 EXCEPT
            !.lastCall = [ n        |-> s0.lastCall.n + 1,
                           key      |-> propertyKey,
                           differs  |-> differs,
                           ret      |-> s1._updateRequest,
                           pending  |-> s1.promises[s1._updateRequest] = "pending",
                           wasDone  |-> s1._updateRequest \in s0.done,
                           requested |-> s1._hasRequestedUpdate,
                           reflecting |-> s0._isReflecting,
                           connected |-> s0._isConnected,
                           threw    |-> propertyKey # NoKey
                                            /\ DetectorThrows(propertyKey, d) ],
            !.during = IF "during" \in histories /\ s0.pass # 0
                       THEN @ \cup {s0.pass} ELSE @,
            !.late = IF differs /\ s0.pass # 0 THEN @ \cup {propertyKey} ELSE @,
            !.firstOld = IF differs /\ @[propertyKey] = "none"
                         THEN [@ EXCEPT ![propertyKey] = oldValue] ELSE @,
            !.lastOld = IF differs THEN [@ EXCEPT ![propertyKey] = oldValue] ELSE @,
            !.turn = IF differs /\ inTurn /\ @.writes < 2
                     THEN [@ EXCEPT !.writes = @ + 1] ELSE @ ]

\* a mutation of the set accessor: the old value is read after the store
setReadingAfterStore(s, propertyKey, v, d) ==
    LET stored == [s EXCEPT !.value[propertyKey] = v]
    IN  Traced(s, requestUpdate(stored, propertyKey, v, v, d), propertyKey, v, v, d)

\* the set accessor installed by the property decorator
set(s, propertyKey, v, d) ==
    LET oldValue == s.value[propertyKey]
        stored   == [s EXCEPT !.value[propertyKey] = v]
        written  == DetectorReportsChange(propertyKey, oldValue, v, d)
    IN  [Traced(s, requestUpdate(stored, propertyKey, oldValue, v, d),
                propertyKey, oldValue, v, d)
           EXCEPT !.watched = [i \in 1..Len(@) |->
                                 IF written
                                 THEN [@[i] EXCEPT !.keys = @ \cup {propertyKey}]
                                 ELSE @[i]]]

----------------------------------------------------------------------------
(* Reflection engine *)

\* the default attribute reflector
_reflectAttribute(s, attributeName, oldValue, newValue, d) ==
    set(s, attributeName, converterFromAttribute(attributeName, newValue), d)

\* constructor.attributes.get(attributeName) finds a property: a property
\* declared with `attribute: false` owns no attribute
HasOwner(attributeName) ==
    attributeName \in DOMAIN decl /\ _getPropertyDeclaration(attributeName).attribute

\* a mutation of reflectAttribute: `reflectAttribute: false` is not honoured
reflectAttributeUnconditional(s, attributeName, oldValue, newValue, d) ==
    IF ~HasOwner(attributeName)
    THEN s
    ELSE IF _getPropertyDeclaration(attributeName).reflectAttribute \in CustomHandlers
    THEN Push([s EXCEPT !._isReflecting = TRUE, !.reflectedAttribute = attributeName],
              "attributeReflector")
    ELSE IF DetectorThrows(attributeName, d)
    THEN _reflectAttribute([s EXCEPT !._isReflecting = TRUE],
                           attributeName, oldValue, newValue, d)
    ELSE [_reflectAttribute([s EXCEPT !._isReflecting = TRUE],
                            attributeName, oldValue, newValue, d)
            EXCEPT !._isReflecting = FALSE]

\* a custom reflector runs as user code: its frame is pushed and it returns or
\* throws in a later step; _isReflecting is reset on the normal path only
reflectAttribute(s, attributeName, oldValue, newValue, d) ==
    IF ~HasOwner(attributeName)
    THEN s
    ELSE IF _getPropertyDeclaration(attributeName).reflectAttribute = "false"
    THEN s
    ELSE IF _getPropertyDeclaration(attributeName).reflectAttribute \in CustomHandlers
    THEN Push([s EXCEPT !._isReflecting = TRUE, !.reflectedAttribute = attributeName],
              "attributeReflector")
    ELSE IF DetectorThrows(attributeName, d)
    THEN _reflectAttribute([s EXCEPT !._isReflecting = TRUE],
                           attributeName, oldValue, newValue, d)
    ELSE [_reflectAttribute([s EXCEPT !._isReflecting = TRUE],
                            attributeName, oldValue, newValue, d)
            EXCEPT !._isReflecting = FALSE]

\* a mutation of attributeChangedCallback: the _isReflecting test is missing
attributeChangedCallbackUnguarded(s, attribute, oldValue, newValue, d) ==
    IF oldValue # newValue
    THEN reflectAttribute(s, attribute, oldValue, newValue, d)
    ELSE s

attributeChangedCallback(s, attribute, oldValue, newValue, d) ==
    IF s._isReflecting
    THEN s
    ELSE IF oldValue # newValue
    THEN reflectAttribute(s, attribute, oldValue, newValue, d)
    ELSE s

\* the host's setAttribute (a string) and removeAttribute (NULL): the attribute
\* is changed and the observed-attribute callback runs synchronously; removing
\* an absent attribute changes nothing
setAttribute(s, attributeName, a, d) ==
    IF a = NULL /\ s.attrs[attributeName] = NULL
    THEN s
    ELSE attributeChangedCallback([s EXCEPT !.attrs[attributeName] = a],
                                  attributeName, s.attrs[attributeName], a, d)

\* a mutation of the default property reflector: undefined removes the
\* attribute, as null does
_reflectPropertyRemovingUndefined(s, propertyKey, oldValue, newValue, d) ==
    IF ~_getPropertyDeclaration(propertyKey).attribute
    THEN s
    ELSE LET attributeValue == converterToAttribute(propertyKey, newValue)
         IN  IF attributeValue = UNDEFINED
             THEN setAttribute(s, propertyKey, NULL, d)
             ELSE setAttribute(s, propertyKey, attributeValue, d)

\* the default property reflector, for a value toAttribute accepts: undefined
\* leaves the attribute, null is removeAttribute, a string is setAttribute
_reflectProperty(s, propertyKey, oldValue, newValue, d) ==
    IF ~_getPropertyDeclaration(propertyKey).attribute
    THEN s
    ELSE LET attributeValue == converterToAttribute(propertyKey, newValue)
         IN  IF attributeValue = UNDEFINED
             THEN s
             ELSE setAttribute(s, propertyKey, attributeValue, d)

\* a mutation: the error of a handler is caught and the forEach goes on
AbortContinuing(s) ==
    IF s.stack[Len(s.stack)] \in {"propertyReflector", "notifier"}
    THEN [s EXCEPT !.stack = SubSeq(@, 1, Len(@) - 1), !.iter = @ + 1]
    ELSE [s EXCEPT !.iter = @ + 1]

\* a mutation: the frame callback releases the request flag when update() throws
AbortReleasing(s) ==
    [s EXCEPT !.stack = << >>, !.pass = 0, !._hasRequestedUpdate = FALSE]

\* an exception leaves the frame callback: the rest of the pass is skipped
Abort(s) == [s EXCEPT !.stack = << >>, !.pass = 0]

\* reflectProperty up to the return of its handler; the handler's frame stays
\* on the stack until it returns
reflectProperty(s, propertyKey, oldValue, newValue, d) ==
    IF propertyKey \notin DOMAIN decl
          \/ _getPropertyDeclaration(propertyKey).reflectProperty = "false"
    THEN [s EXCEPT !.iter = @ + 1]
    ELSE IF _getPropertyDeclaration(propertyKey).reflectProperty \in CustomHandlers
    THEN Push([s EXCEPT !._isReflecting = TRUE], "propertyReflector")
    ELSE IF _getPropertyDeclaration(propertyKey).attribute
               /\ converterToAttributeThrows(propertyKey, newValue)
    THEN Abort(Raise([s EXCEPT !._isReflecting = TRUE], TypeError, propertyKey))
    ELSE _reflectProperty(Push([s EXCEPT !._isReflecting = TRUE], "_reflectProperty"),
                          propertyKey, oldValue, newValue, d)

----------------------------------------------------------------------------
(* Notification engine *)

\* the default notifier dispatches `<property>-changed`; its listeners run as
\* user code
_notifyProperty(s, propertyKey, oldValue, newValue) ==
    Push([s EXCEPT !.events = Append(@, [ property |-> propertyKey,
                                          previous |-> oldValue,
                                          current  |-> newValue ])],
         "listener")

\* a mutation of notifyProperty: `notify: false` is not honoured
notifyPropertyAlways(s, propertyKey, oldValue, newValue) ==
    IF propertyKey \notin DOMAIN decl
    THEN [s EXCEPT !.iter = @ + 1]
    ELSE IF _getPropertyDeclaration(propertyKey).notify \in CustomHandlers
    THEN Push(s, "notifier")
    ELSE _notifyProperty(s, propertyKey, oldValue, newValue)

notifyProperty(s, propertyKey, oldValue, newValue) ==
    IF propertyKey \notin DOMAIN decl
          \/ _getPropertyDeclaration(propertyKey).notify = "false"
    THEN [s EXCEPT !.iter = @ + 1]
    ELSE IF _getPropertyDeclaration(propertyKey).notify \in CustomHandlers
    THEN Push(s, "notifier")
    ELSE _notifyProperty(s, propertyKey, oldValue, newValue)

\* a mutation of the loop of watch(): a key whose value is what it was before
\* the executor is skipped
RECURSIVE watchLoopNetEffect(_, _, _, _)
watchLoopNetEffect(s, previous, i, d) ==
    IF i > Len(s._changedProperties)
    THEN s
    ELSE LET e == s._changedProperties[i]
         IN  watchLoopNetEffect(
                IF e.key \notin s.lastWatch.same
                      /\ (~MapHas(previous, e.key)
                             \/ hasChanged(e.key, MapGet(previous, e.key), e.old, d))
                THEN [s EXCEPT !._notifyingProperties = MapSet(@, e.key, e.old),
                               !.lastWatch.added = @ \cup {e.key}]
                ELSE s,
                previous, i + 1, d)

\* the loop of watch() after the executor has returned
RECURSIVE watchLoop(_, _, _, _)
watchLoop(s, previous, i, d) ==
    IF i > Len(s._changedProperties)
    THEN s
    ELSE LET e == s._changedProperties[i]
         IN  IF MapHas(previous, e.key) /\ DetectorThrows(e.key, d)
             THEN Raise(s, CHANGE_DETECTOR_ERROR(_getPropertyDeclaration(e.key).observe),
                        e.key)
             ELSE watchLoop(
                    IF ~MapHas(previous, e.key)
                          \/ hasChanged(e.key, MapGet(previous, e.key), e.old, d)
                    THEN [s EXCEPT !._notifyingProperties = MapSet(@, e.key, e.old),
                                   !.lastWatch.added = @ \cup {e.key}]
                    ELSE s,
                    previous, i + 1, d)

\* watch() from the return of its executor; the history of the call is closed
watchReturn(s, d) ==
    LET w  == s.watched[Len(s.watched)]
        s1 == [s EXCEPT
                 !.previousChanges = SubSeq(@, 1, Len(@) - 1),
                 !.watched = SubSeq(@, 1, Len(@) - 1),
                 !.lastWatch = [ n     |-> @.n + 1,
                                 keys  |-> w.keys,
                                 same  |-> { k \in Keys : s.value[k] = w.before[k] },
                                 added |-> {},
                                 notifying |-> {} ]]
        s2 == watchLoop(s1, s.previousChanges[Len(s.previousChanges)], 1, d)
    IN  Pop([s2 EXCEPT !.lastWatch.notifying = MapKeys(s2._notifyingProperties)])

----------------------------------------------------------------------------
(* The pass: the frame callback of _scheduleUpdate and the rest of _enqueueUpdate *)

\* a mutation of _scheduleUpdate: its promise resolves without waiting for the frame
_scheduleUpdateResolvingAtOnce(s, p) ==
    [s EXCEPT !.rafQueue = Append(@, p),
              !.microtasks = Append(@, [kind |-> "afterSchedule", p |-> p])]

\* a mutation of _scheduleUpdate: update() is called at once, not in a frame callback
_scheduleUpdateWithoutFrame(s, p) ==
    [s EXCEPT !.pass = p,
              !.started = Append(@, p),
              !.stack = << "render" >>,
              !.log = << "render" >>]

\* _enqueueUpdate after `await previousRequest`: _scheduleUpdate requests a frame
_scheduleUpdate(s, p) == [s EXCEPT !.rafQueue = Append(@, p)]

\* a mutation of update(): render() is skipped when nothing is recorded as changed
updateSkippingEmpty(s) ==
    IF s._changedProperties = << >>
    THEN [s EXCEPT !.stack = << "reflect" >>, !.iter = 1, !.log = << "reflect" >>]
    ELSE [s EXCEPT !.stack = << "render" >>, !.log = << "render" >>]

\* update() up to the call of the element's template() in render()
update(s) == [s EXCEPT !.stack = << "render" >>, !.log = << "render" >>]

\* a mutation of update(): the notifiers run before the reflectors
NextStageNotifyFirst(stage) ==
    CASE stage = "render"  -> "notify"
      [] stage = "notify"  -> "reflect"
      [] stage = "reflect" -> "updateCallback"

\* the statement of update() that follows the given one
NextStage(stage) ==
    CASE stage = "render"  -> "reflect"
      [] stage = "reflect" -> "notify"
      [] stage = "notify"  -> "updateCallback"

\* a mutation: the hook is told of a first update every time
firstUpdateAlways(s) == TRUE

\* the second argument of updateCallback
firstUpdateOf(s) == ~s._hasUpdated

\* update() moves on to its next statement; updateCallback is called with the
\* first-update flag
enterStage(s, stage) ==
    [s EXCEPT !.stack = << stage >>,
              !.iter = 1,
              !.log = Append(@, stage),
              !.hook = IF stage = "updateCallback"
                       THEN [ n |-> @.n + 1, firstUpdate |-> firstUpdateOf(s) ]
                       ELSE @]

\* the frame callback after update() has returned
\* a mutation: the dirty sets are left as they are
finishUpdateKeepDirty(s) ==
    [s EXCEPT !._hasUpdated = TRUE,
              !._hasRequestedUpdate = FALSE,
              !.microtasks = Append(@, [kind |-> "afterSchedule", p |-> s.pass]),
              !.done = @ \cup {s.pass},
              !.firstOld = [k \in Keys |-> "none"],
              !.pass = 0,
              !.stack = << >>]

\* a mutation: _notifyingProperties is not replaced
finishUpdateKeepNotifying(s) ==
    [s EXCEPT !.log = Append(@, "clear"),
              !._hasUpdated = TRUE,
              !._changedProperties = << >>,
              !._reflectingProperties = << >>,
              !._hasRequestedUpdate = FALSE,
              !.microtasks = Append(@, [kind |-> "afterSchedule", p |-> s.pass]),
              !.done = @ \cup {s.pass},
              !.firstOld = [k \in Keys |-> "none"],
              !.pass = 0,
              !.stack = << >>]

\* a mutation: _changedProperties is not replaced
finishUpdateKeepChanged(s) ==
    [s EXCEPT !.log = Append(@, "clear"),
              !._hasUpdated = TRUE,
              !._reflectingProperties = << >>,
              !._notifyingProperties = << >>,
              !._hasRequestedUpdate = FALSE,
              !.microtasks = Append(@, [kind |-> "afterSchedule", p |-> s.pass]),
              !.done = @ \cup {s.pass},
              !.firstOld = [k \in Keys |-> "none"],
              !.pass = 0,
              !.stack = << >>]

finishUpdate(s) ==
    [s EXCEPT !.log = Append(@, "clear"),
              !._hasUpdated = TRUE,
              !._changedProperties = << >>,
              !._reflectingProperties = << >>,
              !._notifyingProperties = << >>,
              !._hasRequestedUpdate = FALSE,
              !.microtasks = Append(@, [kind |-> "afterSchedule", p |-> s.pass]),
              !.done = @ \cup {s.pass},
              !.firstOld = [k \in Keys |-> "none"],
              !.pass = 0,
              !.stack = << >>]

\* the continuations of q's `await previousRequest` become runnable
RECURSIVE Wake(_, _)
Wake(s, q) ==
    IF \E i \in 1..Len(s.waiting) : s.waiting[i].on = q
    THEN LET i == CHOOSE j \in 1..Len(s.waiting) :
                      /\ s.waiting[j].on = q
                      /\ \A h \in 1..(j - 1) : s.waiting[h].on # q
         IN  Wake([s EXCEPT
                     !.microtasks = Append(@, [kind |-> "afterPrevious",
                                               p |-> s.waiting[i].p]),
                     !.waiting = SubSeq(@, 1, i - 1) \o SubSeq(@, i + 1, Len(@))],
                  q)
    ELSE s

\* a mutation: the promise in _updateRequest is resolved, not the one this call created
resolveCurrentRequest(s, p) ==
    Wake([s EXCEPT !.promises[s._updateRequest] =
                        IF s._hasRequestedUpdate THEN "false" ELSE "true"],
         s._updateRequest)

\* _enqueueUpdate after `await result`: resolve!(!this._hasRequestedUpdate)
resolveRequest(s, p) ==
    Wake([s EXCEPT !.promises[p] = IF s._hasRequestedUpdate THEN "false" ELSE "true",
                   !.log = Append(@, "resolve")],
         p)

----------------------------------------------------------------------------
(* Initial state: a constructed element with no attributes, whose declared
   properties have no initializers *)

Constructed ==
    /\ value = [k \in Names |-> UNDEFINED]
    /\ _listenerDeclarations = << >>
    /\ bound = << >>
    /\ attrs = [k \in Names |-> NULL]
    /\ _changedProperties = << >>
    /\ _reflectingProperties = << >>
    /\ _notifyingProperties = << >>
    /\ _isReflecting = FALSE
    /\ _hasUpdated = FALSE
    /\ _hasRequestedUpdate = FALSE
    /\ _updateRequest = 1
    /\ promises = << "true" >>
    /\ waiting = << >>
    /\ microtasks = << >>
    /\ rafQueue = << >>
    /\ stack = << >>
    /\ pass = 0
    /\ iter = 1
    /\ previousChanges = << >>
    /\ events = << >>
    /\ ops = 0
    /\ started = << >>
    /\ done = {}
    /\ turn = [idle |-> TRUE, base |-> 1, writes |-> 0]
    /\ lastCall = [ n |-> 0, key |-> NoKey, differs |-> FALSE, ret |-> 1,
                    pending |-> FALSE, wasDone |-> FALSE, requested |-> FALSE,
                    reflecting |-> FALSE, connected |-> FALSE, threw |-> FALSE ]
    /\ late = {}
    /\ firstOld = [k \in Keys |-> "none"]
    /\ lastOld = [k \in Keys |-> UNDEFINED]
    /\ _isConnected = FALSE
    /\ reflectedAttribute = NoKey
    /\ log = << >>
    /\ watched = << >>
    /\ lastWatch = [ n |-> 0, keys |-> {}, same |-> {}, added |-> {}, notifying |-> {} ]
    /\ lastError = NoError
    /\ hook = [ n |-> 0, firstUpdate |-> FALSE ]
    /\ during = {}
    /\ element = UNDEFINED
    /\ hasFocus = FALSE
    /\ dispatched = << >>
    /\ focusEvents = [ n |-> 0, last |-> UNDEFINED ]

Init ==
    /\ decl \in ElementClasses
    /\ listeners = << >>
    /\ budget = MaxOps
    /\ scope = Keys
    /\ histories = {}
    /\ Constructed

InitFair ==
    /\ decl \in WatchedClasses
    /\ listeners = << >>
    /\ budget = MaxFairOps
    /\ scope = {"count"}
    /\ histories = {}
    /\ Constructed

InitObserved ==
    /\ decl \in ObservedClasses
    /\ listeners = << >>
    /\ budget = MaxOps
    /\ scope = Keys
    /\ histories = {}
    /\ Constructed

InitBoolean ==
    /\ decl \in BooleanClasses
    /\ listeners = << >>
    /\ budget = MaxOps
    /\ scope = Keys
    /\ histories = {}
    /\ Constructed

InitHandlers ==
    /\ decl \in HandlerClasses
    /\ listeners = << >>
    /\ budget = MaxOps
    /\ scope = Keys
    /\ histories = {}
    /\ Constructed

InitUnobserved ==
    /\ decl \in UnobservedClasses
    /\ listeners = << >>
    /\ budget = MaxOps
    /\ scope = Names
    /\ histories = {}
    /\ Constructed

\* more operations, all on the one property `count`
InitWatched ==
    /\ decl \in WatchedClasses
    /\ listeners = << >>
    /\ budget = MaxWatchOps
    /\ scope = {"count"}
    /\ histories = {"during"}
    /\ Constructed

InitNotified ==
    /\ decl \in NotifiedClasses
    /\ listeners = << >>
    /\ budget = MaxOps
    /\ scope = Keys
    /\ histories = {}
    /\ Constructed

InitConverted ==
    /\ decl \in ConvertedClasses
    /\ listeners = << >>
    /\ budget = MaxOps
    /\ scope = {"count"}
    /\ histories = {}
    /\ Constructed

\* an element whose class declares listeners
InitListeners ==
    /\ decl \in WatchedClasses
    /\ listeners \in ListenerRegistries
    /\ budget = MaxOps
    /\ scope = {"count"}
    /\ histories = {}
    /\ Constructed

----------------------------------------------------------------------------
(* The host: tasks, microtasks, frames *)

NewTurn(s) ==
    [s EXCEPT !.stack = << "script" >>,
              !.late = {},
              !.turn = [ idle   |-> ~s._hasRequestedUpdate,
                         base   |-> Len(s.promises),
                         writes |-> 0 ]]

\* a task (a script, an event handler of the page) starts once the microtask
\* queue has drained
BeginTask ==
    /\ stack = << >>
    /\ microtasks = << >>
    /\ ops < budget
    /\ Commit(NewTurn(Cur))

EndTask ==
    /\ stack = << "script" >>
    /\ Commit(Pop(Cur))

ResumeAfterPrevious ==
    /\ stack = << >>
    /\ microtasks # << >>
    /\ Head(microtasks).kind = "afterPrevious"
    /\ Commit(_scheduleUpdate([Cur EXCEPT !.microtasks = Tail(@)], Head(microtasks).p))

ResumeAfterSchedule ==
    /\ stack = << >>
    /\ microtasks # << >>
    /\ Head(microtasks).kind = "afterSchedule"
    /\ Commit(resolveRequest([Cur EXCEPT !.microtasks = Tail(@)], Head(microtasks).p))

RunUserMicrotask ==
    /\ stack = << >>
    /\ microtasks # << >>
    /\ Head(microtasks).kind = "user"
    /\ Commit(NewTurn([Cur EXCEPT !.microtasks = Tail(@)]))

\* the frame callback of _scheduleUpdate starts: update() calls render(), which
\* calls the element's template()
AnimationFrame ==
    /\ stack = << >>
    /\ microtasks = << >>
    /\ rafQueue # << >>
    /\ Commit(update([Cur EXCEPT !.rafQueue = Tail(@),
                                 !.pass = Head(rafQueue),
                                 !.started = Append(@, Head(rafQueue)),
                                 !.late = {},
                                 !.events = << >>]))

----------------------------------------------------------------------------
(* update() *)

RenderReturn ==
    /\ stack = << "render" >>
    /\ Commit(enterStage(Cur, NextStage("render")))

\* one turn of _reflectingProperties.forEach, or its end
ReflectNext ==
    /\ stack = << "reflect" >>
    /\ IF iter > Len(_reflectingProperties)
       THEN Commit(enterStage(Cur, NextStage("reflect")))
       ELSE LET e == _reflectingProperties[iter]
            IN  Commit(reflectProperty(Cur, e.key, e.old, value[e.key], "changed"))

\* the handler returned: reflectProperty resets _isReflecting
ReflectorReturn ==
    /\ Top(Cur) \in {"propertyReflector", "_reflectProperty"}
    /\ Commit([Pop(Cur) EXCEPT !._isReflecting = FALSE, !.iter = @ + 1])

\* the custom handler threw: PROPERTY_REFLECTOR_ERROR leaves update()
ReflectorThrow ==
    /\ Top(Cur) = "propertyReflector"
    /\ LET propertyKey == _reflectingProperties[iter].key
       IN  Commit(Abort(Raise(Cur,
                PROPERTY_REFLECTOR_ERROR(_getPropertyDeclaration(propertyKey).reflectProperty),
                propertyKey)))

\* one turn of _notifyingProperties.forEach, or its end and updateCallback
NotifyNext ==
    /\ stack = << "notify" >>
    /\ IF iter > Len(_notifyingProperties)
       THEN Commit(enterStage(Cur, NextStage("notify")))
       ELSE LET e == _notifyingProperties[iter]
            IN  Commit(notifyProperty(Cur, e.key, e.old, value[e.key]))

NotifierReturn ==
    /\ Top(Cur) \in {"notifier", "listener"}
    /\ Commit([Pop(Cur) EXCEPT !.iter = @ + 1])

\* the custom notifier threw: PROPERTY_NOTIFIER_ERROR leaves update()
NotifierThrow ==
    /\ Top(Cur) = "notifier"
    /\ LET propertyKey == _notifyingProperties[iter].key
       IN  Commit(Abort(Raise(Cur,
                PROPERTY_NOTIFIER_ERROR(_getPropertyDeclaration(propertyKey).notify),
                propertyKey)))

\* updateCallback returned; the frame callback clears the dirty sets and
\* resolves the promise of _scheduleUpdate
UpdateCallbackReturn ==
    /\ stack = << "updateCallback" >>
    /\ Commit(finishUpdate(Cur))

----------------------------------------------------------------------------
(* What user code does: in a task, a microtask, or a hook of the pass *)

InUserCode == Top(Cur) \in (UserFrames \cup {"listener"}) /\ ops < budget

Op(s) == [s EXCEPT !.ops = @ + 1]

Outcomes(k) ==
    IF k \in DOMAIN decl /\ decl[k].observe = "custom"
    THEN {"changed", "unchanged", "throw"}
    ELSE {"changed"}

\* element[k] = v
SetProperty(k, v) ==
    /\ InUserCode
    /\ k \in scope
    /\ v \in ValuesOf(k)
    /\ \E d \in Outcomes(k) : Commit(Op(set(Cur, k, v, d)))

\* element.setAttribute(k, a) / element.removeAttribute(k)
SetAttribute(k, a) ==
    /\ InUserCode
    /\ k \in scope
    /\ \E d \in Outcomes(k) : Commit(Op(setAttribute(Cur, k, a, d)))

AttributeReflectorReturn ==
    /\ Top(Cur) = "attributeReflector"
    /\ Commit([Pop(Cur) EXCEPT !._isReflecting = FALSE, !.reflectedAttribute = NoKey])

\* the custom handler threw: ATTRIBUTE_REFLECTOR_ERROR leaves reflectAttribute
\* and attributeChangedCallback, and the host reports it
AttributeReflectorThrow ==
    /\ Top(Cur) = "attributeReflector"
    /\ Commit([Pop(Raise(Cur,
                  ATTRIBUTE_REFLECTOR_ERROR(
                      _getPropertyDeclaration(reflectedAttribute).reflectAttribute),
                  reflectedAttribute))
                 EXCEPT !.reflectedAttribute = NoKey])

\* this.requestUpdate()
CallRequestUpdate ==
    /\ InUserCode
    /\ Commit(Op(Traced(Cur, requestUpdate(Cur, NoKey, UNDEFINED, UNDEFINED, "changed"),
                        NoKey, UNDEFINED, UNDEFINED, "changed")))

\* this.requestUpdate(k, old, new), from code of the component that keeps the
\* old value itself
CallRequestUpdateFor(k, old, new) ==
    /\ InUserCode
    /\ k \in scope
    /\ new \in ValuesOf(k)
    /\ \E d \in Outcomes(k) :
           Commit(Op(Traced(Cur, requestUpdate(Cur, k, old, new, d), k, old, new, d)))

\* the event target of a listener declaration: the declared target, the
\* result of the declared function, or the element itself
TargetOf(declaration) ==
    IF declaration.target = UNDEFINED THEN "this" ELSE declaration.target

\* EventTarget.addEventListener: a listener that is in the list already, for
\* the same event and options, is not added again
addEventListener(list, target, event, listener, options) ==
    LET entry == [ target |-> target, event |-> event, listener |-> listener,
                   options |-> options ]
    IN  IF \E i \in 1..Len(list) : list[i] = entry THEN list ELSE Append(list, entry)

\* EventTarget.removeEventListener
removeEventListener(list, target, event, listener, options) ==
    SelectSeq(list, LAMBDA e : e # [ target |-> target, event |-> event,
                                     listener |-> listener, options |-> options ])

\* the forEach of _listen over the static listeners, from the i-th on; bind()
\* returns a new function each time, named here by its method and the
\* position of its instance declaration
RECURSIVE _listenFrom(_, _)
_listenFrom(s, i) ==
    IF i > Len(listeners)
    THEN s
    ELSE LET declaration == listeners[i]
             instanceDeclaration ==
                 [ event    |-> declaration.event,
                   options  |-> declaration.options,
                   listener |-> [ method |-> declaration.listener,
                                  bind   |-> Len(s._listenerDeclarations) + 1 ],
                   target   |-> TargetOf(declaration) ]
         IN  _listenFrom(
                [s EXCEPT !.bound = addEventListener(@, instanceDeclaration.target,
                                                     instanceDeclaration.event,
                                                     instanceDeclaration.listener,
                                                     instanceDeclaration.options),
                          !._listenerDeclarations = Append(@, instanceDeclaration)],
                i + 1)

_listen(s) == _listenFrom(s, 1)

\* the forEach of _unlisten over _listenerDeclarations, from the i-th on
RECURSIVE _unlistenFrom(_, _)
_unlistenFrom(s, i) ==
    IF i > Len(s._listenerDeclarations)
    THEN s
    ELSE LET declaration == s._listenerDeclarations[i]
         IN  _unlistenFrom(
                [s EXCEPT !.bound = removeEventListener(@, declaration.target,
                                                        declaration.event,
                                                        declaration.listener,
                                                        declaration.options)],
                i + 1)

\* a mutation of _unlisten: the method is passed to removeEventListener, not
\* the function bind() returned
RECURSIVE _unlistenUnboundFrom(_, _)
_unlistenUnboundFrom(s, i) ==
    IF i > Len(s._listenerDeclarations)
    THEN s
    ELSE LET declaration == s._listenerDeclarations[i]
         IN  _unlistenUnboundFrom(
                [s EXCEPT !.bound = removeEventListener(@, declaration.target,
                                        declaration.event,
                                        [ method |-> declaration.listener.method,
                                          bind   |-> 0 ],
                                        declaration.options)],
                i + 1)

_unlistenUnbound(s) == _unlistenUnboundFrom(s, 1)

_unlisten(s) == _unlistenFrom(s, 1)

\* a mutation of connectedCallback: no update is requested
connectedCallbackWithoutRequest(s) == _listen([s EXCEPT !._isConnected = TRUE])

\* the lifecycle event dispatched at the end has no listener in the model
connectedCallback(s) ==
    LET s1 == _listen([s EXCEPT !._isConnected = TRUE])
    IN  Traced(s1, requestUpdate(s1, NoKey, UNDEFINED, UNDEFINED, "changed"),
               NoKey, UNDEFINED, UNDEFINED, "changed")

\* a mutation of disconnectedCallback: the requested frame is cancelled
disconnectedCallbackCancelling(s) ==
    _unlisten([s EXCEPT !._isConnected = FALSE, !.rafQueue = << >>])

disconnectedCallback(s) == _unlisten([s EXCEPT !._isConnected = FALSE])

\* a script of the page inserts the element into the document
Connect ==
    /\ stack = << "script" >>
    /\ ops < budget
    /\ ~_isConnected
    /\ Commit(Op(connectedCallback(Cur)))

\* a script of the page removes the element from the document
Disconnect ==
    /\ stack = << "script" >>
    /\ ops < budget
    /\ _isConnected
    /\ Commit(Op(disconnectedCallback(Cur)))

\* Promise.resolve().then(...)
QueueMicrotask ==
    /\ InUserCode
    /\ Commit(Op([Cur EXCEPT !.microtasks = Append(@, [kind |-> "user", p |-> 0])]))

\* this.watch(executor), up to the call of the executor
WatchBegin ==
    /\ InUserCode
    /\ Commit(Op(Push([Cur EXCEPT !.previousChanges = Append(@, _changedProperties),
                                  !.watched = Append(@, [ keys   |-> {},
                                                          before |-> value ])],
                      "watch")))

\* the executor returned
WatchEnd ==
    /\ Top(Cur) = "watch"
    /\ \E d \in UNION { Outcomes(k) : k \in Keys } : Commit(watchReturn(Cur, d))

Next ==
    \/ BeginTask
    \/ EndTask
    \/ ResumeAfterPrevious
    \/ ResumeAfterSchedule
    \/ RunUserMicrotask
    \/ AnimationFrame
    \/ RenderReturn
    \/ ReflectNext
    \/ ReflectorReturn
    \/ ReflectorThrow
    \/ NotifyNext
    \/ NotifierReturn
    \/ NotifierThrow
    \/ UpdateCallbackReturn
    \/ \E k \in Keys, v \in WriteVals : SetProperty(k, v)
    \/ \E k \in Names, a \in AttrVals : SetAttribute(k, a)
    \/ AttributeReflectorReturn
    \/ AttributeReflectorThrow
    \/ CallRequestUpdate
    \/ \E k \in Names, new \in WriteVals : CallRequestUpdateFor(k, "n0", new)
    \/ Connect
    \/ Disconnect
    \/ QueueMicrotask
    \/ WatchBegin
    \/ WatchEnd

Spec == Init /\ [][Next]_vars

\* steps the engine, the microtask queue and returning user code take by
\* themselves
Progress ==
    \/ EndTask
    \/ ResumeAfterPrevious
    \/ ResumeAfterSchedule
    \/ RunUserMicrotask
    \/ RenderReturn
    \/ ReflectNext
    \/ ReflectorReturn
    \/ NotifyNext
    \/ NotifierReturn
    \/ UpdateCallbackReturn
    \/ AttributeReflectorReturn
    \/ WatchEnd

\* user code and hooks return, the microtask queue drains when the stack is
\* empty, and the host eventually invokes a requested frame callback
FairSpec == InitFair /\ [][Next]_vars /\ WF_vars(Progress) /\ SF_vars(AnimationFrame)

\* the same element with a custom change detector on `count`
SpecObserved == InitObserved /\ [][Next]_vars

\* an element of which the environment uses one property, for longer
SpecWatched == InitWatched /\ [][Next]_vars

\* an element whose reflectors and notifiers are all custom
SpecHandlers == InitHandlers /\ [][Next]_vars

\* the same element with the boolean converter on `count`
SpecBoolean == InitBoolean /\ [][Next]_vars

\* an element with an unobserved property and a property not reflected from
\* its attribute, whose scripts also use an undeclared name
SpecUnobserved == InitUnobserved /\ [][Next]_vars

\* elements whose properties differ in their `notify` option
SpecNotified == InitNotified /\ [][Next]_vars

\* elements whose `count` is written with numbers, NaN, undefined and null, or
\* has no attribute
SpecConverted == InitConverted /\ [][Next]_vars

\* an element with listener declarations that is attached and detached
SpecListeners == InitListeners /\ [][Next]_vars

----------------------------------------------------------------------------
(* FocusMonitor: a behavior attached to an element, which turns the focusin
   and focusout events that reach the element into 'focus-changed' events *)

\* where a focus event comes from or goes to: the monitored element, one of
\* its descendants, an element outside of it, or nothing (null)
Inside == {"element", "descendant"}

RelatedTargets == Inside \cup {"outside", NULL}

\* the focus events that reach the listeners of the monitored element: their
\* target is the element or a descendant
FocusEvents(type) ==
    [ type : {type}, target : Inside, relatedTarget : RelatedTargets ]

\* Node.contains: a node contains itself and its descendants, and not null
contains(node, other) == node = "element" /\ other \in Inside

\* Behavior.dispatch: a CustomEvent with the given detail is dispatched on the
\* element
dispatch(sent, eventName, detail) ==
    Append(sent, [ name |-> eventName, detail |-> detail ])

\* the monitor as a record of its fields
Monitor == [ hasFocus |-> hasFocus, dispatched |-> dispatched ]

\* a mutation of handleFocusIn: the test of hasFocus is missing
handleFocusInUnguarded(m, event) ==
    [m EXCEPT !.hasFocus = TRUE,
              !.dispatched = dispatch(@, "focus-changed",
                                      [ type |-> "focusin", event |-> event ])]

handleFocusIn(m, event) ==
    IF ~m.hasFocus
    THEN [m EXCEPT !.hasFocus = TRUE,
                   !.dispatched = dispatch(@, "focus-changed",
                                           [ type |-> "focusin", event |-> event ])]
    ELSE m

handleFocusOut(m, event) ==
    IF "element" = event.relatedTarget \/ contains("element", event.relatedTarget)
    THEN m
    ELSE IF m.hasFocus
    THEN [m EXCEPT !.hasFocus = FALSE,
                   !.dispatched = dispatch(@, "focus-changed",
                                           [ type |-> "focusout", event |-> event ])]
    ELSE m

\* the engine's state, which the monitor does not touch
engineVars ==
    << decl, listeners, _listenerDeclarations, bound, budget, scope, histories,
       value, attrs, _changedProperties, _reflectingProperties,
       _notifyingProperties, _isReflecting, _hasUpdated, _hasRequestedUpdate,
       _updateRequest, promises, waiting, microtasks, rafQueue, stack, pass,
       iter, previousChanges, events, ops, started, done, turn, lastCall,
       late, firstOld, lastOld, _isConnected, reflectedAttribute, log,
       watched, lastWatch, lastError, hook, during >>

\* monitor.attach(element): the two listeners are registered on the element
Attach ==
    /\ element = UNDEFINED
    /\ element' = "element"
    /\ UNCHANGED << hasFocus, dispatched, focusEvents >>
    /\ UNCHANGED engineVars

Deliver(m, event) ==
    /\ element # UNDEFINED
    /\ focusEvents.n < MaxFocusEvents
    /\ hasFocus' = m.hasFocus
    /\ dispatched' = m.dispatched
    /\ focusEvents' = [ n |-> focusEvents.n + 1, last |-> event ]
    /\ UNCHANGED element
    /\ UNCHANGED engineVars

\* a focusin event reaches the element: the first listener runs
FocusIn(event) == Deliver(handleFocusIn(Monitor, event), event)

\* a focusout event reaches the element: the second listener runs
FocusOut(event) == Deliver(handleFocusOut(Monitor, event), event)

NextFocus ==
    \/ Attach
    \/ \E event \in FocusEvents("focusin") : FocusIn(event)
    \/ \E event \in FocusEvents("focusout") : FocusOut(event)

\* a FocusMonitor and the focus events of its element; the element's update
\* engine takes no step
InitFocus ==
    /\ decl \in WatchedClasses
    /\ listeners = << >>
    /\ budget = 0
    /\ scope = {}
    /\ histories = {}
    /\ Constructed

SpecFocus == InitFocus /\ [][NextFocus]_vars

----------------------------------------------------------------------------
(* Properties *)

Passes == 2..Len(promises)

Resolved(p) == promises[p] # "pending"

TimesStarted(p) == Cardinality({ i \in 1..Len(started) : started[i] = p })

\* C1: the writes of one execution turn that starts on an instance with no
\* update requested, however many of them record a change, enqueue exactly
\* one pass, and a pass runs update() (and so render) once: no pass is started
\* twice, and a pass whose promise has resolved has run once.
C1_OnePassPerTurn ==
    /\ (turn.idle /\ turn.writes >= 1) => Len(promises) = turn.base + 1
    /\ \A p \in Passes :
          /\ TimesStarted(p) <= 1
          /\ Resolved(p) => TimesStarted(p) = 1 /\ p \in done

\* two writes of one turn were recorded and their one pass has completed
C1_Witness ==
    /\ turn.idle
    /\ turn.writes = 2
    /\ Len(promises) = turn.base + 1
    /\ Resolved(turn.base + 1)
    /\ started = << 2 >>

\* C2 as stated: the changedProperties entry of a key holds the old value of
\* the first recorded change of the batch (the oldest pre-batch value).
C2_OldestValue ==
    \A i \in 1..Len(_changedProperties) :
        _changedProperties[i].old = firstOld[_changedProperties[i].key]

\* C2, amended: the changedProperties entry of a key holds the old value of
\* the latest recorded change of that key, i.e. the value the property had
\* just before its most recent change-recording write.
C2_LatestOldValue ==
    \A i \in 1..Len(_changedProperties) :
        _changedProperties[i].old = lastOld[_changedProperties[i].key]

\* two writes to one key were coalesced and the entry holds the intermediate value
C2_Witness ==
    \E i \in 1..Len(_changedProperties) :
        LET e == _changedProperties[i]
        IN  /\ firstOld[e.key] = UNDEFINED
            /\ e.old \in Numbers
            /\ value[e.key] \in Numbers
            /\ value[e.key] # e.old

\* C3: at most one pass is enqueued and not yet completed; whatever is waiting,
\* queued for a frame or running is that pass; and while a pass body runs, the
\* promise of every earlier pass has resolved and its body has completed.
C3_AtMostOnePass ==
    /\ Cardinality({ p \in Passes : p \notin done }) <= 1
    /\ Len(rafQueue) + Len(waiting) + (IF pass # 0 THEN 1 ELSE 0) <= 1
    /\ _hasRequestedUpdate <=> (\E p \in Passes : p \notin done)
    /\ pass # 0 =>
          /\ pass = _updateRequest
          /\ \A q \in 1..(pass - 1) : Resolved(q) /\ (q = 1 \/ q \in done)

\* the body of a second pass is running, after the first pass has completed
\* and its promise has resolved
C3_Witness ==
    /\ pass = 3
    /\ started = << 2, 3 >>
    /\ Top(Cur) = "render"
    /\ Resolved(2)
    /\ _hasRequestedUpdate


BodyCompleted == started # << >> /\ started[Len(started)] \in done

\* C4 as stated: a change recorded while a pass body runs is captured for the
\* next pass: once that body has completed it is still in changedProperties.
C4_CapturedForNextPass ==
    (pass = 0 /\ BodyCompleted) => late \subseteq MapKeys(_changedProperties)

\* C4, amended: a change recorded while a pass body runs goes into the dirty
\* sets of the running pass (it is in the changedProperties map the rest of
\* that pass sees) and enqueues no pass; when the body completes, the frame
\* callback clears it together with the other entries and resets
\* hasRequestedUpdate, so that no later pass processes it.
C4_RecordedThenDiscarded ==
    [][ /\ pass # 0 => promises' = promises /\ _updateRequest' = _updateRequest
        /\ (pass # 0 /\ pass' # 0) => late' \subseteq MapKeys(_changedProperties')
        /\ (pass # 0 /\ pass \in done') =>
              /\ _changedProperties' = << >>
              /\ _reflectingProperties' = << >>
              /\ _notifyingProperties' = << >>
              /\ ~_hasRequestedUpdate'
              /\ rafQueue' = << >> /\ waiting' = << >>
      ]_vars

\* a change was recorded during a pass body, that body has completed, and
\* nothing of it is left
C4_Witness ==
    /\ pass = 0
    /\ BodyCompleted
    /\ late # {}
    /\ _changedProperties = << >>
    /\ ~_hasRequestedUpdate
    /\ rafQueue = << >>

ReflectionFrames == {"attributeReflector", "propertyReflector", "_reflectProperty"}

\* C5: isReflecting is false on every exit path of reflectAttribute and
\* reflectProperty: whenever no reflection call is on the stack, the flag is
\* false.
C5_GuardReleased ==
    (\A i \in 1..Len(stack) : stack[i] \notin ReflectionFrames) => ~_isReflecting

\* C6: when a pass reflects a property through the default reflector, the
\* attribute becomes the converted value and the attribute-changed callback
\* this triggers writes no property, calls requestUpdate not at all and
\* schedules nothing; the same holds for an attribute set by a custom
\* reflector, as for any attribute change made while isReflecting is true;
\* and a behaviour whose only input is one recorded property change enqueues
\* and runs at most one pass.
C6_NoFeedbackFromAttribute ==
    /\ [][ ( /\ stack = << "reflect" >>
             /\ iter <= Len(_reflectingProperties)
             /\ decl[_reflectingProperties[iter].key].reflectProperty = "default"
             /\ stack' # << >> )
           => LET k == _reflectingProperties[iter].key
              IN  /\ attrs'[k] = toString(value[k])
                  /\ value' = value
                  /\ lastCall' = lastCall
                  /\ _changedProperties' = _changedProperties
                  /\ _reflectingProperties' = _reflectingProperties
                  /\ _hasRequestedUpdate' = _hasRequestedUpdate
                  /\ promises' = promises
                  /\ microtasks' = microtasks
                  /\ stack' = << "reflect", "_reflectProperty" >>
         ]_vars
    /\ [][ (_isReflecting /\ attrs' # attrs)
           => /\ value' = value
              /\ lastCall' = lastCall
              /\ _changedProperties' = _changedProperties
              /\ _reflectingProperties' = _reflectingProperties
              /\ promises' = promises
              /\ stack' \in {stack, Append(stack, "_reflectProperty")}
         ]_vars
    /\ []( (ops = 1 /\ lastCall.n = 1 /\ lastCall.differs)
             => /\ Len(promises) = 2
                /\ Len(started) <= 1
                /\ (2 \in done => ~_hasRequestedUpdate /\ rafQueue = << >>) )

\* one write was the only input, its pass has reflected it to the attribute,
\* completed and resolved, and nothing further is scheduled
C6_Witness ==
    /\ ops = 1
    /\ lastCall.n = 1
    /\ \E k \in Keys : value[k] \in Numbers /\ attrs[k] = toString(value[k])
    /\ Resolved(2)
    /\ stack = << >> /\ microtasks = << >> /\ rafQueue = << >>
    /\ ~_hasRequestedUpdate

\* C7: a recorded change is in changedProperties and an update is requested;
\* its key is put into reflectingProperties, with the same old value, exactly
\* when isReflecting is false at the call: a write made by the default
\* attribute reflector leaves reflectingProperties as it was.
C7_NoReflectionBack ==
    [][ (lastCall'.n # lastCall.n /\ lastCall'.differs)
        => LET k == lastCall'.key
           IN  /\ MapHas(_changedProperties', k)
               /\ _hasRequestedUpdate'
               /\ IF lastCall'.reflecting
                  THEN _reflectingProperties' = _reflectingProperties
                  ELSE /\ MapHas(_reflectingProperties', k)
                       /\ MapGet(_reflectingProperties', k)
                              = MapGet(_changedProperties', k)
      ]_vars

\* an external attribute change was reflected to its property: the change is
\* recorded, a pass is enqueued, and nothing is marked for reflection
C7_Witness ==
    /\ lastCall.n = 1
    /\ lastCall.reflecting
    /\ lastCall.differs
    /\ attrs[lastCall.key] = "s0"
    /\ value[lastCall.key] = "s0"
    /\ MapHas(_changedProperties, lastCall.key)
    /\ _reflectingProperties = << >>
    /\ _hasRequestedUpdate
    /\ ~_isReflecting

\* C8: a requestUpdate call with a key whose detector reports no change
\* leaves the three dirty sets, hasRequestedUpdate and everything scheduled as
\* they were and returns the current _updateRequest; and changedProperties
\* gains or changes an entry only in a call whose detector reported a change.
C8_UnchangedIsNoOp ==
    [][ /\ (lastCall'.n # lastCall.n /\ lastCall'.key # NoKey /\ ~lastCall'.differs)
           => /\ _changedProperties' = _changedProperties
              /\ _reflectingProperties' = _reflectingProperties
              /\ _notifyingProperties' = _notifyingProperties
              /\ _hasRequestedUpdate' = _hasRequestedUpdate
              /\ _updateRequest' = _updateRequest
              /\ lastCall'.ret = _updateRequest
              /\ promises' = promises
              /\ microtasks' = microtasks
              /\ waiting' = waiting
              /\ rafQueue' = rafQueue
        /\ (_changedProperties' # _changedProperties /\ _changedProperties' # << >>)
           => lastCall'.n # lastCall.n /\ lastCall'.differs
      ]_vars

\* a property was assigned the value it already had, on an idle instance
C8_Witness ==
    /\ lastCall.n = 2
    /\ lastCall.key \in Keys
    /\ ~lastCall.differs
    /\ value[lastCall.key] \in Numbers
    /\ ~lastCall.pending
    /\ ~_hasRequestedUpdate
    /\ _changedProperties = << >>

\* C9 as stated: every requestUpdate call returns a promise that has not
\* resolved and whose pass has not completed before the call.
C9_AlwaysAwaitsNextPass ==
    lastCall.n > 0 => lastCall.pending /\ ~lastCall.wasDone

\* C9, amended: a requestUpdate call without a key, or that records a change,
\* leaves an update requested; and every call that leaves an update requested
\* returns a promise that is pending, whose pass has not completed before the
\* call, and that resolves only after that pass has completed.
C9_RequestedAwaitsNextPass ==
    lastCall.n > 0 =>
        /\ (lastCall.key = NoKey \/ lastCall.differs) => lastCall.requested
        /\ lastCall.requested =>
              /\ lastCall.pending
              /\ ~lastCall.wasDone
              /\ lastCall.ret \in Passes
              /\ Resolved(lastCall.ret) => lastCall.ret \in done

\* the promise a call returned has resolved, after its pass
C9_Witness ==
    /\ lastCall.n > 0
    /\ lastCall.requested
    /\ Resolved(lastCall.ret)
    /\ lastCall.ret \in done

\* C10: passes run and resolve in the order they were enqueued: a later
\* promise is resolved only after every earlier one, a later body starts only
\* after every earlier body has completed and its promise has resolved.
C10_FirstRequestedFirstServed ==
    /\ \A i \in 1..Len(started) : \A j \in 1..Len(started) :
          i < j => started[i] < started[j]
    /\ \A i \in Passes : \A j \in Passes :
          i < j =>
             /\ Resolved(j) => Resolved(i)
             /\ TimesStarted(j) > 0 => Resolved(i) /\ i \in done

\* a second pass was enqueued while the promise of the first had not yet
\* resolved, and both have resolved
C10_Witness ==
    /\ Len(promises) = 3
    /\ started = << 2, 3 >>
    /\ Resolved(3)
    /\ promises[2] = "false"

----------------------------------------------------------------------------
(* Scheduling: liveness and asynchrony *)

HasStarted(p) == \E i \in 1..Len(started) : started[i] = p

Queued(q) == { q[i] : i \in 1..Len(q) }

\* C11: every pass that requestUpdate has enqueued eventually runs its body,
\* given that the host eventually invokes frame callbacks; and nothing cancels
\* it on the way: a suspended _enqueueUpdate stays suspended until it is
\* resumed, a requested frame stays requested until it fires, also when the
\* element is disconnected in between.
C11_EveryPassRuns ==
    /\ \A p \in 2..(MaxFairOps + 1) : (Len(promises) >= p) ~> HasStarted(p)
    /\ [][ /\ \A p \in Queued(rafQueue) : p \in Queued(rafQueue') \/ pass' = p
           /\ \A i \in 1..Len(waiting) :
                 \/ \E j \in 1..Len(waiting') : waiting'[j] = waiting[i]
                 \/ \E j \in 1..Len(microtasks') :
                        microtasks'[j] = [kind |-> "afterPrevious", p |-> waiting[i].p]
           /\ \A i \in 1..Len(microtasks) :
                 microtasks[i].kind = "afterPrevious" =>
                     \/ \E j \in 1..Len(microtasks') : microtasks'[j] = microtasks[i]
                     \/ microtasks[i].p \in Queued(rafQueue')
      ]_vars

\* the body of a pass runs on a disconnected element; the pass was requested
\* while the element was connected
C11_Witness ==
    /\ pass # 0
    /\ ~_isConnected
    /\ lastCall.connected
    /\ lastCall.ret = pass
    /\ lastCall.pending

\* C12: the body of a pass never runs inside the requestUpdate call or the
\* property write that triggers it: such a call starts no body and requests no
\* frame. A frame is requested only from a microtask, once the promise that
\* was pending when the pass was enqueued has resolved, and a body starts
\* only as the callback of the frame requested for it, on an empty stack.
C12_NeverSynchronous ==
    /\ [](pass # 0 => stack # << >>
                       /\ stack[1] \in {"render", "reflect", "notify", "updateCallback"})
    /\ [][ /\ (lastCall'.n # lastCall.n \/ value' # value) =>
                 started' = started /\ pass' = pass /\ rafQueue' = rafQueue
           /\ Len(rafQueue') > Len(rafQueue) =>
                 /\ stack = << >>
                 /\ microtasks # << >>
                 /\ Resolved(rafQueue'[Len(rafQueue')] - 1)
           /\ started' # started =>
                 /\ stack = << >>
                 /\ rafQueue # << >>
                 /\ pass' = Head(rafQueue)
                 /\ rafQueue' = Tail(rafQueue)
                 /\ Resolved(pass' - 1)
      ]_vars

\* the body of the pass a property write requested is running: the write
\* returned that pass's promise, then pending, and its turn has ended
C12_Witness ==
    /\ stack = << "render" >>
    /\ pass = 2
    /\ lastCall.ret = 2
    /\ lastCall.key # NoKey
    /\ lastCall.pending
    /\ Resolved(1)

----------------------------------------------------------------------------
(* watch() *)

\* C13 as stated: when watch(executor) has returned, every property of which
\* a write inside the executor was recorded as a change has its entry in
\* notifyingProperties, also when the property already had an entry in
\* changedProperties before the executor ran.
C13_EveryWatchedWriteNotified == lastWatch.keys \subseteq lastWatch.notifying

----------------------------------------------------------------------------
(* The steps of a pass *)

Stages == << "render", "reflect", "notify", "updateCallback", "clear", "resolve" >>

IsPrefix(a, b) == Len(a) <= Len(b) /\ \A i \in 1..Len(a) : a[i] = b[i]

Last(q) == q[Len(q)]

InStack(frame) == \E i \in 1..Len(stack) : stack[i] = frame

\* C15: the steps of a pass run in one order: render, the reflectors of
\* reflectingProperties, the notifiers of notifyingProperties, the
\* update-completed hook; only after the hook has returned are the three
\* dirty sets cleared and hasRequestedUpdate reset, and only after that does
\* the promise of the pass resolve.
C15_FixedOrder ==
    /\ [](IsPrefix(log, Stages))
    /\ [](pass # 0 => stack # << >> /\ stack[1] = Last(log))
    /\ []((InStack("propertyReflector") \/ InStack("_reflectProperty")) => stack[1] = "reflect")
    /\ []((InStack("notifier") \/ InStack("listener")) => stack[1] = "notify")
    /\ []((pass # 0 /\ Last(log) = "updateCallback") => _hasRequestedUpdate)
    /\ [][ /\ (\/ _changedProperties # << >> /\ _changedProperties' = << >>
               \/ _reflectingProperties # << >> /\ _reflectingProperties' = << >>
               \/ _notifyingProperties # << >> /\ _notifyingProperties' = << >>
               \/ _hasRequestedUpdate /\ ~_hasRequestedUpdate') =>
                 /\ stack = << "updateCallback" >>
                 /\ log' = Append(log, "clear")
                 /\ promises' = promises
           /\ (\E p \in 1..Len(promises) : ~Resolved(p) /\ promises'[p] # "pending") =>
                 /\ Last(log) = "clear"
                 /\ log' = Append(log, "resolve")
      ]_vars

\* a pass has run all its steps, a reflector has written an attribute and a
\* notifier has dispatched an event
C15_Witness ==
    /\ log = Stages
    /\ events # << >>
    /\ \E k \in Keys : value[k] \in Numbers /\ attrs[k] = toString(value[k])

\* C16: every pass calls render exactly once, first, whatever the dirty sets
\* hold; and requestUpdate() without a key on an instance with no update
\* requested enqueues a pass, recording no change.
C16_RenderOncePerPass ==
    /\ [](started # << >> =>
            /\ log # << >>
            /\ log[1] = "render"
            /\ Cardinality({ i \in 1..Len(log) : log[i] = "render" }) = 1)
    /\ [][ /\ started' # started => stack' = << "render" >> /\ log' = << "render" >>
           /\ (lastCall'.n # lastCall.n /\ lastCall'.key = NoKey /\ ~_hasRequestedUpdate) =>
                 /\ _hasRequestedUpdate'
                 /\ Len(promises') = Len(promises) + 1
                 /\ lastCall'.ret = Len(promises')
                 /\ lastCall'.pending
                 /\ _changedProperties' = _changedProperties
      ]_vars

\* render runs in the pass that requestUpdate() without a key has enqueued on
\* an idle instance; changedProperties is empty
C16_Witness ==
    /\ stack = << "render" >>
    /\ _changedProperties = << >>
    /\ lastCall.n = 1
    /\ lastCall.key = NoKey
    /\ lastCall.ret = pass
    /\ ops = 1

----------------------------------------------------------------------------
(* Errors *)

\* C17: when the custom change detector of a property throws, the
\* requestUpdate call throws a change-detector error naming that detector to
\* its caller, within the triggering write; the call changes none of the three
\* dirty sets, leaves hasRequestedUpdate as it was and enqueues no pass.
C17_DetectorErrorIsSynchronous ==
    [][ (lastCall'.n # lastCall.n /\ lastCall'.threw) =>
          /\ lastError'.n = lastError.n + 1
          /\ lastError'.kind = CHANGE_DETECTOR_ERROR("custom").kind
          /\ lastError'.key = lastCall'.key
          /\ lastError'.handler = decl[lastCall'.key].observe
          /\ stack' = stack
          /\ _changedProperties' = _changedProperties
          /\ _reflectingProperties' = _reflectingProperties
          /\ _notifyingProperties' = _notifyingProperties
          /\ _hasRequestedUpdate' = _hasRequestedUpdate
          /\ _updateRequest' = _updateRequest
          /\ lastCall'.ret = _updateRequest
          /\ promises' = promises
          /\ waiting' = waiting
          /\ microtasks' = microtasks
          /\ rafQueue' = rafQueue
      ]_vars

\* the detector threw in the first write to an idle element: the value is
\* stored, nothing is recorded and no pass is enqueued
C17_Witness ==
    /\ lastCall.n = 1
    /\ lastCall.threw
    /\ lastError.n = 1
    /\ lastError.kind = "property change detector"
    /\ value[lastCall.key] \in Numbers
    /\ _changedProperties = << >>
    /\ ~_hasRequestedUpdate
    /\ Len(promises) = 1

PassErrors == { PROPERTY_REFLECTOR_ERROR("custom").kind,
                PROPERTY_NOTIFIER_ERROR("custom").kind,
                TypeError.kind }

\* the latest pass was left by an exception
Aborted == started # << >> /\ pass = 0 /\ Last(started) \notin done

\* C18: when a reflector or a notifier throws during a pass, the pass ends
\* there: no further reflector, notifier or update-completed hook of it is
\* invoked, then or later; and what the pass has done so far stays: the
\* attributes written, the events dispatched, the values and the dirty sets
\* are as they were when the handler threw.
C18_ThrowEndsThePass ==
    /\ [](Aborted => Last(log) \in {"reflect", "notify"} /\ lastError.n >= 1)
    /\ [][ /\ (pass # 0 /\ lastError'.n # lastError.n /\ lastError'.kind \in PassErrors) =>
                 /\ pass' = 0
                 /\ stack' = << >>
                 /\ pass \notin done'
                 /\ log' = log
                 /\ iter' = iter
                 /\ attrs' = attrs
                 /\ events' = events
                 /\ value' = value
                 /\ _changedProperties' = _changedProperties
                 /\ _reflectingProperties' = _reflectingProperties
                 /\ _notifyingProperties' = _notifyingProperties
           /\ Aborted => log' = log /\ events' = events /\ started' = started /\ pass' = 0
      ]_vars

\* a notifier threw after a reflector of the same pass had written an
\* attribute: the attribute is still there, the hook was not called
C18_Witness ==
    /\ Aborted
    /\ lastError.kind = PROPERTY_NOTIFIER_ERROR("custom").kind
    /\ log = << "render", "reflect", "notify" >>
    /\ \E k \in Keys :
          /\ value[k] \in ValuesOf(k)
          /\ attrs[k] # NULL
          /\ attrs[k] = converterToAttribute(k, value[k])

\* C19: the error of a throwing custom reflectAttribute handler, a function
\* or a method named in the declaration, is an attribute-reflector error
\* naming that handler, thrown out of the attribute-changed call to its
\* caller while that caller is still on the stack; the error of a throwing
\* custom property reflector or notifier is a property-reflector or
\* property-notifier error naming that handler, thrown out of the frame
\* callback of the pass; no write and no requestUpdate call throws any of them.
C19_ErrorsNameTheirHandler ==
    [][ /\ (lastError'.n # lastError.n
            /\ lastError'.kind = ATTRIBUTE_REFLECTOR_ERROR("custom").kind) =>
           /\ Top(Cur) = "attributeReflector"
           /\ Len(stack) >= 2
           /\ stack' = SubSeq(stack, 1, Len(stack) - 1)
           /\ lastError'.key = reflectedAttribute
           /\ lastError'.handler = decl[reflectedAttribute].reflectAttribute
           /\ lastError'.handler \in CustomHandlers
           /\ pass' = pass
        /\ (lastError'.n # lastError.n
            /\ lastError'.kind = PROPERTY_REFLECTOR_ERROR("custom").kind) =>
           /\ pass # 0 /\ pass' = 0
           /\ stack = << "reflect", "propertyReflector" >>
           /\ stack' = << >>
           /\ lastError'.key = _reflectingProperties[iter].key
           /\ lastError'.handler = decl[lastError'.key].reflectProperty
           /\ lastError'.handler \in CustomHandlers
        /\ (lastError'.n # lastError.n
            /\ lastError'.kind = PROPERTY_NOTIFIER_ERROR("custom").kind) =>
           /\ pass # 0 /\ pass' = 0
           /\ stack = << "notify", "notifier" >>
           /\ stack' = << >>
           /\ lastError'.key = _notifyingProperties[iter].key
           /\ lastError'.handler = decl[lastError'.key].notify
           /\ lastError'.handler \in CustomHandlers
        /\ (lastCall'.n # lastCall.n \/ value' # value) => lastError' = lastError
      ]_vars

\* a reflectAttribute handler threw in a task, out of the attribute-changed
\* call (the guard is still set), and later a notifier threw in the pass
C19_Witness ==
    /\ lastError.n = 2
    /\ lastError.kind = PROPERTY_NOTIFIER_ERROR("custom").kind
    /\ lastError.handler \in CustomHandlers
    /\ Aborted
    /\ Last(log) = "notify"
    /\ _isReflecting
    /\ reflectedAttribute = NoKey

----------------------------------------------------------------------------
(* The boolean converter *)

\* properties with the boolean converter and the default reflectors
BooleanKeys ==
    { k \in Keys : /\ decl[k].converter = "boolean"
                   /\ decl[k].reflectAttribute = "default"
                   /\ decl[k].reflectProperty = "default" }

\* C20: for a property with the boolean converter and default reflection in
\* both directions: the pass reflects the value true as the attribute value
\* "true" and any other value by removing the attribute; when the attribute
\* is removed from outside, the property reads false and is not marked for
\* reflection; and once the removal is the last thing that happened to the
\* element, the attribute stays absent through the pass that follows.
C20_BooleanRoundTrip ==
    /\ [](\A k \in BooleanKeys :
            (ops = 2 /\ lastCall.n = 2 /\ lastCall.key = k /\ lastCall.reflecting
                /\ value[k] = "bF") => attrs[k] = NULL)
    /\ [][ \A k \in BooleanKeys :
             /\ (/\ stack = << "reflect" >>
                 /\ iter <= Len(_reflectingProperties)
                 /\ _reflectingProperties[iter].key = k) =>
                   /\ attrs'[k] = IF value[k] = "bT" THEN "true" ELSE NULL
                   /\ value'[k] = value[k]
             /\ (attrs[k] # NULL /\ attrs'[k] = NULL /\ ~_isReflecting /\ stack' = stack) =>
                   /\ value'[k] = "bF"
                   /\ lastCall'.reflecting
                   /\ MapKeys(_reflectingProperties') = MapKeys(_reflectingProperties)
             /\ (attrs[k] = NULL /\ attrs'[k] # NULL /\ stack = << "reflect" >>) =>
                   value[k] = "bT"
      ]_vars

\* the attribute was removed from outside, the property reads false, the pass
\* that followed has completed and the attribute is still absent
C20_Witness ==
    \E k \in BooleanKeys :
        /\ ops = 2
        /\ lastCall.n = 2
        /\ lastCall.key = k
        /\ lastCall.reflecting
        /\ value[k] = "bF"
        /\ attrs[k] = NULL
        /\ started = << 2, 3 >>
        /\ done = {2, 3}
        /\ Resolved(3)

----------------------------------------------------------------------------
(* The promise of a pass *)

\* C21 as stated: the value a pass's promise resolves to tells whether
\* requestUpdate was called during the body of that pass: the promise of a
\* pass during whose body it was called and the promise of a pass during
\* whose body it was not called have resolved to different values.
C21_ValueTellsFurtherRequest ==
    \A p \in Passes, q \in Passes :
        (Resolved(p) /\ Resolved(q) /\ p \in during /\ q \notin during) =>
            promises[p] # promises[q]

\* microtasks that resume an _enqueueUpdate call at its first await
Resuming == { i \in 1..Len(microtasks) : microtasks[i].kind = "afterPrevious" }

C23_OnePromisePerPendingPass ==
    /\ [](_hasRequestedUpdate =>
            /\ _updateRequest = Len(promises)
            /\ _updateRequest >= 2
            /\ promises[_updateRequest] = "pending"
            /\ _updateRequest \notin done)
    /\ [][ /\ lastCall'.n # lastCall.n =>
                 /\ lastCall'.ret = _updateRequest'
                 /\ _hasRequestedUpdate =>
                       /\ lastCall'.ret = _updateRequest
                       /\ promises' = promises
                 /\ (~_hasRequestedUpdate /\ lastCall'.requested) =>
                       /\ lastCall'.ret = Len(promises) + 1
                       /\ lastCall'.ret # _updateRequest
                       /\ Len(promises') = Len(promises) + 1
                       /\ lastCall'.pending
                       /\ \A q \in 1..Len(promises) : promises'[q] = promises[q]
           /\ _updateRequest' # _updateRequest =>
                 /\ lastCall'.n = lastCall.n + 1
                 /\ ~_hasRequestedUpdate
                 /\ _hasRequestedUpdate'
      ]_vars

\* a second pass is enqueued; the latest of three calls was made during its
\* body and has returned its promise, which is pending and is not that of the
\* first pass
C23_Witness ==
    /\ lastCall.n = 3
    /\ during = {3}
    /\ lastCall.ret = 3
    /\ lastCall.pending
    /\ Len(promises) = 3
    /\ started = << 2, 3 >>
    /\ Resolved(2)

----------------------------------------------------------------------------
(* The dirty sets *)

DirtyKeys ==
    MapKeys(_changedProperties) \cup MapKeys(_reflectingProperties)
        \cup MapKeys(_notifyingProperties)

\* C24: an entry leaves a dirty set, and hasRequestedUpdate is reset, only in
\* the step that ends the body of a completed pass, after the
\* update-completed hook has returned; that step empties all three sets and
\* resets the flag, so that no state has some of them cleared and others not:
\* whenever no update is requested, all three are empty. Every entry a state
\* holds was recorded by a call made since the sets were last cleared.
C24_ClearedTogether ==
    /\ [](~_hasRequestedUpdate => DirtyKeys = {})
    /\ [](\A k \in DirtyKeys : firstOld[k] # "none")
    /\ [][ /\ (\/ MapKeys(_changedProperties) \ MapKeys(_changedProperties') # {}
               \/ MapKeys(_reflectingProperties) \ MapKeys(_reflectingProperties') # {}
               \/ MapKeys(_notifyingProperties) \ MapKeys(_notifyingProperties') # {}
               \/ _hasRequestedUpdate /\ ~_hasRequestedUpdate') =>
                 /\ stack = << "updateCallback" >>
                 /\ pass # 0 /\ pass \notin done /\ pass \in done'
           /\ (pass # 0 /\ pass \in done') =>
                 /\ _changedProperties' = << >>
                 /\ _reflectingProperties' = << >>
                 /\ _notifyingProperties' = << >>
                 /\ ~_hasRequestedUpdate'
                 /\ \A k \in Keys : firstOld'[k] = "none"
      ]_vars

\* a pass has completed after a watch block had marked a property it wrote; a
\* later pass, enqueued by requestUpdate(), runs and the sets hold nothing
C24_Witness ==
    /\ started = << 2, 3 >>
    /\ 2 \in done
    /\ pass = 3
    /\ lastWatch.keys # {}
    /\ lastWatch.keys \subseteq lastWatch.added
    /\ lastCall.key = NoKey /\ lastCall.ret = 3
    /\ DirtyKeys = {}
    /\ _hasRequestedUpdate

\* C25: in every state the keys of reflectingProperties and the keys of
\* notifyingProperties are keys of changedProperties.
C25_SubsetsOfChanged ==
    /\ MapKeys(_reflectingProperties) \subseteq MapKeys(_changedProperties)
    /\ MapKeys(_notifyingProperties) \subseteq MapKeys(_changedProperties)

\* a property written by a custom attribute reflector inside a watch block is
\* changed and marked for notification, and not marked for reflection
C25_Witness ==
    /\ lastWatch.n = 1
    /\ MapKeys(_notifyingProperties) # {}
    /\ MapKeys(_notifyingProperties) = MapKeys(_changedProperties)
    /\ _reflectingProperties = << >>
    /\ lastCall.reflecting

----------------------------------------------------------------------------
(* Unobserved and undeclared names *)

\* the key has no change detector: it has no declaration, or its declaration
\* has `observe: false`
Unobserved(k) == k \notin DOMAIN decl \/ decl[k].observe = "false"

\* C27: a requestUpdate call for a key that has no declaration, or whose
\* declaration has observe = false, whatever the old and the new value,
\* changes none of the three dirty sets, requests no update, creates no
\* promise, queues nothing, throws nothing, and returns _updateRequest as it
\* was before the call. A write to such a property stores the value and does
\* nothing else.
C27_UnobservedIsNoOp ==
    [][ (lastCall'.n # lastCall.n /\ lastCall'.key # NoKey /\ Unobserved(lastCall'.key)) =>
          /\ ~lastCall'.differs
          /\ lastCall'.ret = _updateRequest
          /\ _updateRequest' = _updateRequest
          /\ _changedProperties' = _changedProperties
          /\ _reflectingProperties' = _reflectingProperties
          /\ _notifyingProperties' = _notifyingProperties
          /\ _hasRequestedUpdate' = _hasRequestedUpdate
          /\ promises' = promises
          /\ waiting' = waiting
          /\ microtasks' = microtasks
          /\ rafQueue' = rafQueue
          /\ lastError' = lastError
          /\ stack' = stack
          /\ attrs' = attrs
          /\ \A k \in Names \ {lastCall'.key} : value'[k] = value[k]
      ]_vars

\* the unobserved property was written and holds a new value, and the latest
\* of three calls was requestUpdate for the undeclared key, with an old and a
\* new value that differ: no update is requested and no promise was created
C27_Witness ==
    /\ ops = 3
    /\ lastCall.n = 3
    /\ lastCall.key = Undeclared
    /\ \E k \in Keys : decl[k].observe = "false" /\ value[k] = "n1"
    /\ ~_hasRequestedUpdate
    /\ _changedProperties = << >>
    /\ promises = << "true" >>
    /\ lastCall.ret = 1

\* the attribute-changed notification for attribute k with new value a is one
\* the element ignores: no property owns k, or the owner has
\* reflectAttribute = false, or the attribute already has the value
Ignored(k, a) ==
    \/ k \notin DOMAIN decl
    \/ decl[k].reflectAttribute = "false"
    \/ attrs[k] = a

\* C28: an attribute change of which the element ignores the notification
\* sets the attribute and changes nothing else: no property is written,
\* requestUpdate is not called, the dirty sets, the promises and everything
\* scheduled stay as they are, no handler is invoked, nothing is thrown and
\* isReflecting keeps its value (false, outside a reflection).
C28_IgnoredAttributeChange ==
    [][ \A k \in Names, a \in AttrVals :
          (SetAttribute(k, a) /\ Ignored(k, a)) =>
             /\ attrs' = [attrs EXCEPT ![k] = a]
             /\ value' = value
             /\ lastCall' = lastCall
             /\ _changedProperties' = _changedProperties
             /\ _reflectingProperties' = _reflectingProperties
             /\ _notifyingProperties' = _notifyingProperties
             /\ _hasRequestedUpdate' = _hasRequestedUpdate
             /\ _updateRequest' = _updateRequest
             /\ promises' = promises
             /\ waiting' = waiting
             /\ microtasks' = microtasks
             /\ rafQueue' = rafQueue
             /\ stack' = stack
             /\ _isReflecting' = _isReflecting
             /\ reflectedAttribute' = reflectedAttribute
             /\ lastError' = lastError
      ]_vars

\* the attribute of the property with reflectAttribute = false and the
\* attribute no property owns were set, in three operations: the properties
\* are untouched and nothing is requested
C28_Witness ==
    /\ ops = 3
    /\ attrs[Undeclared] = "s0"
    /\ \E k \in Keys : decl[k].reflectAttribute = "false" /\ attrs[k] = "s0"
    /\ \A k \in Names : value[k] = UNDEFINED
    /\ lastCall.n = 0
    /\ ~_isReflecting
    /\ ~_hasRequestedUpdate
    /\ promises = << "true" >>
    /\ stack = << "script" >>
    /\ turn.base = 1

----------------------------------------------------------------------------
(* The update-completed hook *)

HookRunning == stack # << >> /\ stack[1] = "updateCallback"

\* C29: updateCallback is called once in every pass that completes, with
\* firstUpdate = true in the first of these calls and false in every later
\* one; hasUpdated is false until the body of the first pass has completed,
\* the hook included, and true in every state after that.
C29_FirstUpdateOnce ==
    /\ [](_hasUpdated <=> done # {})
    /\ [](hook.n = Cardinality(done) + (IF HookRunning THEN 1 ELSE 0))
    /\ [](hook.n > 0 => (hook.firstUpdate <=> hook.n = 1))
    /\ [](HookRunning => (hook.firstUpdate <=> ~_hasUpdated))
    /\ [][ /\ _hasUpdated => _hasUpdated'
           /\ hook' # hook =>
                 /\ stack = << "notify" >>
                 /\ stack' = << "updateCallback" >>
                 /\ hook'.n = hook.n + 1
                 /\ hook'.firstUpdate <=> (done = {})
           /\ done' # done => HookRunning /\ done' = done \cup {pass}
      ]_vars

\* the hook of the second pass is running and was told it is not the first
\* update
C29_Witness ==
    /\ stack = << "updateCallback" >>
    /\ pass = 3
    /\ done = {2}
    /\ hook.n = 2
    /\ ~hook.firstUpdate
    /\ _hasUpdated

----------------------------------------------------------------------------
(* Lifecycle *)

\* C30: every connectedCallback calls requestUpdate() without a key, which
\* records no change. On an instance with no update requested the call
\* enqueues a pass and returns its promise; when an update is already
\* requested it enqueues nothing and returns the pending promise. When
\* attaching is all that has happened to the element, one pass is enqueued,
\* its body runs at most once, and once nothing is left to run it has run
\* and its promise has resolved.
C30_AttachRequestsUpdate ==
    /\ []((ops = 1 /\ _isConnected) =>
            /\ Len(promises) = 2
            /\ started \in { << >>, << 2 >> }
            /\ _changedProperties = << >>
            /\ (stack = << >> /\ microtasks = << >> /\ rafQueue = << >>) =>
                  started = << 2 >> /\ done = {2} /\ promises[2] = "true")
    /\ [][ (~_isConnected /\ _isConnected') =>
             /\ lastCall'.n = lastCall.n + 1
             /\ lastCall'.key = NoKey
             /\ lastCall'.ret = _updateRequest'
             /\ lastCall'.pending
             /\ _hasRequestedUpdate'
             /\ _changedProperties' = _changedProperties
             /\ _reflectingProperties' = _reflectingProperties
             /\ _notifyingProperties' = _notifyingProperties
             /\ started' = started
             /\ IF _hasRequestedUpdate
                THEN /\ promises' = promises
                     /\ _updateRequest' = _updateRequest
                     /\ waiting' = waiting
                     /\ microtasks' = microtasks
                     /\ rafQueue' = rafQueue
                ELSE /\ Len(promises') = Len(promises) + 1
                     /\ _updateRequest' = Len(promises')
                     /\ Len(waiting') + Len(microtasks') =
                            Len(waiting) + Len(microtasks) + 1
      ]_vars

\* the element was attached after a property write had enqueued a pass: both
\* calls returned the promise of that pass, which has run and resolved, and
\* no other pass was enqueued
C30_Witness ==
    /\ ops = 2
    /\ _isConnected
    /\ lastCall.n = 2
    /\ lastCall.key = NoKey
    /\ lastCall.ret = 2
    /\ \E k \in Keys : value[k] \in Numbers
    /\ Len(promises) = 2
    /\ started = << 2 >>
    /\ promises[2] = "true"
    /\ ~_hasRequestedUpdate

----------------------------------------------------------------------------
(* C31 *)

\* the `notify` option of the property of an entry of _notifyingProperties
NotifyOption(e) == IF e.key \in DOMAIN decl THEN decl[e.key].notify ELSE "false"

\* the entries of _notifyingProperties the running forEach has called
\* notifyProperty for: those before iter, and the one at iter while its
\* notifier or the listeners of its event run
Visited ==
    SubSeq(_notifyingProperties, 1, IF Len(stack) > 1 THEN iter ELSE iter - 1)

DefaultNotified == SelectSeq(Visited, LAMBDA e : NotifyOption(e) = "default")

\* during the notification step of a pass, one event has been dispatched for
\* each visited entry with the default notifier, in order, and none for the
\* other entries
OneEventPerEntry ==
    (stack # << >> /\ stack[1] = "notify") =>
        /\ Len(events) = Len(DefaultNotified)
        /\ \A j \in 1..Len(events) : events[j].property = DefaultNotified[j].key

\* C31: in a pass, each entry (key -> old) of notifyingProperties is visited
\* once: with a custom notifier the notifier is invoked once (the forEach moves
\* on when it returns), with the default notifier one event is dispatched whose
\* detail is {property: key, previous: the old value stored in the entry,
\* current: the value of the property at that time}, and with a falsy notify
\* nothing is invoked and no event is dispatched.
C31_OneNotificationPerEntry ==
    [][ /\ (stack = << "notify" >> /\ iter <= Len(_notifyingProperties)) =>
             LET e == _notifyingProperties[iter]
             IN  /\ NotifyOption(e) = "false" =>
                       /\ events' = events
                       /\ stack' = stack
                       /\ iter' = iter + 1
                 /\ NotifyOption(e) \in CustomHandlers =>
                       /\ events' = events
                       /\ stack' = << "notify", "notifier" >>
                       /\ iter' = iter
                 /\ NotifyOption(e) = "default" =>
                       /\ events' = Append(events, [ property |-> e.key,
                                                     previous |-> e.old,
                                                     current  |-> value[e.key] ])
                       /\ iter' = iter
        /\ (Len(stack) = 2 /\ stack[1] = "notify" /\ stack' = << "notify" >>) =>
               iter' = iter + 1
        /\ (stack # << >> /\ stack[1] = "notify" /\ stack' # << >>
               /\ stack'[1] = "notify" /\ Len(stack) > 1 /\ Len(stack') > 1) =>
               iter' = iter
        /\ OneEventPerEntry' ]_vars

\* the forEach has visited two entries, one with the default notifier, whose
\* event carries the old and the current value, and one without notifier
C31_Witness ==
    /\ stack = << "notify" >>
    /\ iter = 3
    /\ Len(_notifyingProperties) = 2
    /\ Len(events) = 1
    /\ events[1].previous = UNDEFINED
    /\ events[1].current \in Numbers
    /\ \E i \in 1..2 : NotifyOption(_notifyingProperties[i]) = "false"

----------------------------------------------------------------------------
(* C32 *)

\* C32: the default property-to-attribute handler, called for a property whose
\* declaration has a truthy attribute, leaves the attribute as it is when
\* toAttribute(value) is undefined, removes it when toAttribute(value) is null
\* and sets it to the returned string otherwise; when the declaration's
\* attribute is falsy it changes no attribute.
C32_DefaultPropertyReflector ==
    [][ (stack = << "reflect" >> /\ iter <= Len(_reflectingProperties)) =>
            LET k == _reflectingProperties[iter].key
                a == converterToAttribute(k, value[k])
            IN  (/\ _getPropertyDeclaration(k).reflectProperty = "default"
                 /\ ~(/\ _getPropertyDeclaration(k).attribute
                      /\ converterToAttributeThrows(k, value[k]))) =>
                    /\ stack' = << "reflect", "_reflectProperty" >>
                    /\ IF ~_getPropertyDeclaration(k).attribute
                       THEN attrs' = attrs
                       ELSE /\ a = UNDEFINED => attrs' = attrs
                            /\ a = NULL =>
                                  /\ attrs'[k] = NULL
                                  /\ \A j \in Names \ {k} : attrs'[j] = attrs[j]
                            /\ a \notin {UNDEFINED, NULL} =>
                                  /\ attrs'[k] = a
                                  /\ a \in {"s0", "s1", "sNaN", "true"}
                                  /\ \A j \in Names \ {k} : attrs'[j] = attrs[j] ]_vars

\* the default handler runs for a property whose value is undefined and whose
\* converter returns undefined for it, and the attribute still has the string
\* an earlier pass gave it
C32_Witness ==
    /\ stack = << "reflect", "_reflectProperty" >>
    /\ _reflectingProperties[iter].key = "count"
    /\ _getPropertyDeclaration("count").converter = "nullable"
    /\ _getPropertyDeclaration("count").attribute
    /\ value["count"] = UNDEFINED
    /\ attrs["count"] = "s0"

----------------------------------------------------------------------------
(* C33 *)

----------------------------------------------------------------------------
(* C34 *)

\* C34: for a property with the default change detector, an assignment is
\* reported as a change exactly when the value before and the assigned value
\* are not the same value, NaN counting as the same value as NaN; assigning
\* the value the property already has records nothing and schedules no pass.
C34_DefaultDetector ==
    [][ \A k \in Keys, v \in WriteVals :
            (SetProperty(k, v) /\ _getPropertyDeclaration(k).observe = "default") =>
                /\ lastCall'.key = k
                /\ lastCall'.differs <=> (value[k] # v)
                /\ value[k] # v => MapHas(_changedProperties', k)
                /\ value[k] = v =>
                      /\ _changedProperties' = _changedProperties
                      /\ _reflectingProperties' = _reflectingProperties
                      /\ _hasRequestedUpdate' = _hasRequestedUpdate
                      /\ _updateRequest' = _updateRequest
                      /\ promises' = promises
                      /\ rafQueue' = rafQueue
                      /\ microtasks' = microtasks
                      /\ waiting' = waiting ]_vars

\* NaN was assigned to a property that held NaN after a completed pass: no
\* change was reported and no pass is requested
C34_Witness ==
    /\ lastCall.n = 2
    /\ lastCall.key = "count"
    /\ ~lastCall.differs
    /\ value["count"] = NaN
    /\ done # {}
    /\ ~_hasRequestedUpdate
    /\ rafQueue = << >>
    /\ _changedProperties = << >>

----------------------------------------------------------------------------
(* C35 *)

\* the keys of a map of old values
KeysOf(m) == { m[i].key : i \in 1..Len(m) }

\* C35: once the body of a pass has thrown (a custom reflector or notifier
\* failed), _hasRequestedUpdate is true from then on, the promise of that pass
\* stays pending, no entry leaves the dirty sets, and no requestUpdate call
\* creates a promise, requests a frame or starts a pass again.
C35_ThrowingPassBlocksUpdates ==
    /\ [](Aborted => /\ _hasRequestedUpdate
                     /\ promises[Last(started)] = "pending"
                     /\ _updateRequest = Last(started)
                     /\ rafQueue = << >>)
    /\ [][ Aborted =>
             /\ Aborted'
             /\ started' = started
             /\ promises' = promises
             /\ waiting' = waiting
             /\ KeysOf(_changedProperties) \subseteq KeysOf(_changedProperties')
             /\ KeysOf(_reflectingProperties) \subseteq KeysOf(_reflectingProperties')
             /\ KeysOf(_notifyingProperties) \subseteq KeysOf(_notifyingProperties')
             /\ lastCall'.n # lastCall.n =>
                   /\ lastCall'.ret = Last(started)
                   /\ lastCall'.pending ]_vars

\* after a pass was left by an exception, a script of a later task has written
\* a property: the change is recorded and the call returned the promise of
\* the failed pass, still pending
C35_Witness ==
    /\ Aborted
    /\ stack = << "script" >>
    /\ ~turn.idle
    /\ turn.writes = 1
    /\ lastCall.differs
    /\ lastCall.ret = Last(started)
    /\ lastCall.pending
    /\ MapHas(_changedProperties, lastCall.key)
    /\ lastError.kind \in PassErrors

----------------------------------------------------------------------------
(* C36 *)

----------------------------------------------------------------------------
(* C37 *)

\* a reflectAttribute or reflectProperty call is executing its handler
InReflection == \E i \in 1..Len(stack) : stack[i] \in ReflectionFrames

\* C37: the reflecting guard is one flag of the instance: while any reflection
\* call is executing the flag is set; a write to any declared property, the
\* reflected one or another, is recorded as a change but is not added to
\* reflectingProperties; and a change of any attribute reaches no property and
\* no reflector and requests nothing.
C37_OneGuardPerInstance ==
    /\ [](InReflection => _isReflecting)
    /\ [][ InReflection =>
             /\ \A k \in Keys, v \in WriteVals :
                   SetProperty(k, v) =>
                       /\ _reflectingProperties' = _reflectingProperties
                       /\ lastCall'.reflecting
                       /\ lastCall'.differs => MapHas(_changedProperties', k)
             /\ \A k \in Names, a \in AttrVals :
                   SetAttribute(k, a) =>
                       /\ value' = value
                       /\ stack' = stack
                       /\ lastCall' = lastCall
                       /\ _changedProperties' = _changedProperties
                       /\ _reflectingProperties' = _reflectingProperties
                       /\ _hasRequestedUpdate' = _hasRequestedUpdate
                       /\ _isReflecting' ]_vars

\* while the custom reflector of `count` runs in a pass, `checked` is written:
\* the change is recorded but not marked for reflection
C37_Witness ==
    /\ Top(Cur) = "propertyReflector"
    /\ pass # 0
    /\ _reflectingProperties[iter].key = "count"
    /\ lastCall.key = "checked"
    /\ lastCall.differs
    /\ lastCall.reflecting
    /\ MapHas(_changedProperties, "checked")
    /\ ~MapHas(_reflectingProperties, "checked")

----------------------------------------------------------------------------
(* C38 *)

\* C38: an attached instance has exactly one bound listener per listener
\* declaration of its class, bound to the declaration's resolved target for the
\* declaration's event, in the insertion order of the registry, each bound by
\* the latest attach; a detached instance has no bound listener, whatever the
\* attach and detach calls before.
C38_ListenersFollowAttachment ==
    /\ ~_isConnected => bound = << >>
    /\ _isConnected =>
          /\ Len(bound) = Len(listeners)
          /\ \A i \in 1..Len(listeners) :
                /\ bound[i].listener.method = listeners[i].listener
                /\ bound[i].event = listeners[i].event
                /\ bound[i].options = listeners[i].options
                /\ bound[i].target = TargetOf(listeners[i])
                /\ bound[i].listener.bind =
                       Len(_listenerDeclarations) - Len(listeners) + i

\* the instance was attached, detached and attached again: the listeners of
\* the second attach are bound, those of the first are not
C38_Witness ==
    /\ _isConnected
    /\ Len(listeners) = 3
    /\ Len(_listenerDeclarations) = 6
    /\ Len(bound) = 3
    /\ bound[1].listener.bind = 4
    /\ bound[2].target = "window"

----------------------------------------------------------------------------
(* C39 *)

\* C39: FocusMonitor dispatches 'focus-changed' only when hasFocus flips: a
\* focusin while it has focus, a focusout while it has none, and a focusout
\* whose relatedTarget is the monitored element or one of its descendants
\* dispatch nothing and leave hasFocus as it is; so the dispatched events
\* alternate focusin, focusout, focusin, ..., starting with focusin.
C39_FocusChangesAlternate ==
    /\ [](/\ \A i \in 1..Len(dispatched) :
                /\ dispatched[i].name = "focus-changed"
                /\ dispatched[i].detail.type =
                       IF i % 2 = 1 THEN "focusin" ELSE "focusout"
          /\ hasFocus <=> (Len(dispatched) % 2 = 1))
    /\ [][ /\ dispatched' # dispatched =>
                 /\ hasFocus' # hasFocus
                 /\ Len(dispatched') = Len(dispatched) + 1
                 /\ dispatched'[Len(dispatched')].detail.event = focusEvents'.last
           /\ hasFocus' # hasFocus => dispatched' # dispatched
           /\ \A event \in FocusEvents("focusin") :
                 (FocusIn(event) /\ hasFocus) =>
                     (hasFocus' = hasFocus /\ dispatched' = dispatched)
           /\ \A event \in FocusEvents("focusout") :
                 (FocusOut(event) /\ (~hasFocus \/ event.relatedTarget \in Inside)) =>
                     (hasFocus' = hasFocus /\ dispatched' = dispatched) ]_vars

\* after a focusin was reported, a focusout towards a descendant of the
\* element arrived while the monitor had focus: nothing was dispatched
C39_Witness ==
    /\ hasFocus
    /\ Len(dispatched) = 3
    /\ focusEvents.n = 4
    /\ focusEvents.last.type = "focusout"
    /\ focusEvents.last.relatedTarget = "descendant"

====
